---- MODULE Spec2Model ----
(***************************************************************************)
(* Scribbletune browser clip and channel: the pattern grammar, the         *)
(* duration allocator, the sequence callback and the rendering-duration    *)
(* arithmetic of browser-clip.ts, and the sequence callback of channel.ts. *)
(*                                                                         *)
(* JavaScript numbers are modelled by exact rationals [n |-> , d |-> ] in  *)
(* lowest terms; a pattern string is a sequence of one-character strings;  *)
(* a pattern tree is a sequence of tokens [t |-> , m |-> ] where t is one  *)
(* of "x", "R", "-", "_" or "g" (a nested array with members m).           *)
(***************************************************************************)
EXTENDS Integers, Sequences, FiniteSets, TLC

\* ------------------------------------------------------------------ bounds
\* longest pattern string given to the duration allocator
MaxAllocLen == 6

\* longest pattern string of a clip
MaxPatLen == 2

\* longest notes list of a clip
MaxNotes == 2

\* longest array token handed to convertChordsToNotes
MaxArrLen == 3

\* longest pattern string of a clip() call followed through its validation
MaxCallLen == 3

\* most offline renders started in one session
MaxRenders == 2

\* most clips of a channel
MaxClips == 2

\* passes of the pattern a live (looping) sequence is followed for: enough
\* for every pitch of the longest notes list to come round again
MaxReps == MaxNotes + 1

\* the most recent triggers that are remembered: a full pitch cycle and one more
Window == MaxNotes + 1

\* ------------------------------------------------------- rational numbers
RECURSIVE Gcd(_, _)
Gcd(a, b) == IF b = 0 THEN a ELSE Gcd(b, a % b)

Abs(a) == IF a < 0 THEN 0 - a ELSE a

Rat(n, d) ==
  LET g == Gcd(Abs(n), d) IN [n |-> n \div g, d |-> d \div g]

RatInt(k) == [n |-> k, d |-> 1]

RatAdd(a, b) == Rat(a.n * b.d + b.n * a.d, a.d * b.d)

RatMulInt(a, k) == Rat(a.n * k, a.d)

RatDivInt(a, k) == Rat(a.n, a.d * k)

RatLeq(a, b) == a.n * b.d <= b.n * a.d

RECURSIVE RatSum(_)
RatSum(s) == IF s = <<>> THEN RatInt(0) ELSE RatAdd(Head(s), RatSum(Tail(s)))

\* ---------------------------------------------------------------- patterns
Alphabet == {"x", "-", "_", "R", "[", "]"}

Leaf(c) == [t |-> c, m |-> <<>>]

Group(members) == [t |-> "g", m |-> members]

RECURSIVE DepthOk(_, _, _)
DepthOk(s, i, depth) ==
  IF i > Len(s) THEN depth = 0
  ELSE IF s[i] = "[" THEN DepthOk(s, i + 1, depth + 1)
  ELSE IF s[i] = "]" THEN depth > 0 /\ DepthOk(s, i + 1, depth - 1)
  ELSE DepthOk(s, i + 1, depth)

\* brackets nest and close
Balanced(s) == DepthOk(s, 1, 0)

\* the legal pattern strings of length 1..n
PatternStrings(n) ==
  {s \in UNION {[1..k -> Alphabet] : k \in 1..n} : Balanced(s)}

RECURSIVE ParseFrom(_, _)
ParseFrom(s, i) ==
  IF i > Len(s) THEN [toks |-> <<>>, next |-> i]
  ELSE IF s[i] = "]" THEN [toks |-> <<>>, next |-> i + 1]
  ELSE IF s[i] = "[" THEN
    LET inner == ParseFrom(s, i + 1)
        rest == ParseFrom(s, inner.next)
    IN [toks |-> <<Group(inner.toks)>> \o rest.toks, next |-> rest.next]
  ELSE
    LET rest == ParseFrom(s, i + 1)
    IN [toks |-> <<Leaf(s[i])>> \o rest.toks, next |-> rest.next]

\* utils.expandStr: "x[-x]" becomes ['x', ['-', 'x']]
expandStr(str) == ParseFrom(str, 1).toks

\* ------------------------------------------------------ duration allocator
\* a push that puts the new entry first
pushDuration_Front(durations, length) == <<length>> \o durations

\* durations.push(length)
pushDuration(durations, length) == Append(durations, length)

\* a tie that appends its own entry instead of extending the last one
extendLast_Push(durations, length) == Append(durations, length)

\* durations[durations.length - 1] += length, guarded by durations.length
extendLast(durations, length) ==
  IF Len(durations) > 0
  THEN [durations EXCEPT ![Len(durations)] = RatAdd(@, length)]
  ELSE durations

\* a recursion that passes the parent's length on undivided
memberLength_NoDivide(length, k) == length

\* a recursion that divides by one member too many
memberLength_OffByOne(length, k) == RatDivInt(length, k + 1)

\* length / char.length (never used by a member when char is empty)
memberLength(length, k) == IF k = 0 THEN length ELSE RatDivInt(length, k)

RECURSIVE recursivelyApplyPatternToDurations(_, _, _)
recursivelyApplyPatternToDurations(patternArr, length, durations) ==
  IF patternArr = <<>> THEN durations
  ELSE
    LET char == Head(patternArr)
        next ==
          IF char.t \in {"x", "R"} THEN pushDuration(durations, length)
          ELSE IF char.t = "_" THEN extendLast(durations, length)
          ELSE IF char.t = "g" THEN
            recursivelyApplyPatternToDurations(
              char.m, memberLength(length, Len(char.m)), durations)
          ELSE durations
    IN recursivelyApplyPatternToDurations(Tail(patternArr), length, next)

\* totalPatternDuration with a numeric subdivOrLength
totalPatternDuration(pattern, subdivOrLength) ==
  RatMulInt(subdivOrLength, Len(expandStr(pattern)))

\* ------------------------------------------------------- clip parameters
\* an optional list: null/undefined, or an array (truthy even when empty)
None == [set |-> FALSE, v |-> <<>>]

Some(list) == [set |-> TRUE, v |-> list]

\* an optional string: undefined, or a non-empty string
NoStr == [set |-> FALSE, v |-> ""]

SomeStr(str) == [set |-> TRUE, v |-> str]

\* what indexing past an array, or with NaN, yields
Undefined == <<"undefined">>

\* a string token ('C4', 'CM') and an array token ['E4', 'G4']
StringToken(str) == [k |-> "string", v |-> <<str>>]

NoteToken(name) == StringToken(name)

ArrayToken(names) == [k |-> "array", v |-> names]

\* the well-formed pitch names that occur: letter A-G, optional accidental,
\* octave number
NoteNames == {"C4", "E4", "G4", "A4"}

\* utils.isNote
isNote(str) == str \in NoteNames

\* harmonics.chord: the pitch list of a chord name, nothing for any other name
chord(name) == IF name = "CM" THEN <<"C4", "E4", "G4">> ELSE <<>>

\* a value returned
Returned(list) == [ok |-> TRUE, v |-> list, type |-> "", msg |-> <<>>]

\* an error thrown
Thrown(type, msg) == [ok |-> FALSE, v |-> <<>>, type |-> type, msg |-> msg]

\* convertChordsToNotes: the list it returns or the error it throws
convertChordsToNotes(el) ==
  IF el.k = "string" /\ isNote(el.v[1]) THEN Returned(<<el.v[1]>>)
  ELSE IF el.k = "array" THEN
    IF \E i \in 1..Len(el.v) : ~isNote(el.v[i])
    THEN Thrown("TypeError", <<"array must comprise valid notes">>)
    ELSE Returned(el.v)
  ELSE
    LET c == chord(el.v[1])
    IN IF Len(c) > 0 THEN Returned(c)
       ELSE Thrown("Error", <<"Chord ", el.v[1], " not found">>)

\* params.notes.map(convertChordsToNotes), when no element throws
mapConvert(tokens) == [i \in 1..Len(tokens) |-> convertChordsToNotes(tokens[i]).v]

\* the elements on which convertChordsToNotes throws
throwingAt(tokens) == {i \in 1..Len(tokens) : ~convertChordsToNotes(tokens[i]).ok}

\* what params.notes.map(convertChordsToNotes) throws: the first element's error
mapError(tokens) ==
  convertChordsToNotes(
    tokens[CHOOSE i \in throwingAt(tokens) : \A j \in throwingAt(tokens) : i <= j])

\* getDefaultParams().notes
defaultNotes == <<NoteToken("C4")>>

\* Tone.Ticks(subdiv).toSeconds() at the default tempo of 120 bpm
TicksToSeconds(subdiv) ==
  IF subdiv = "4n" THEN Rat(1, 2)
  ELSE IF subdiv = "8n" THEN Rat(1, 4)
  ELSE RatInt(2)

\* a duration handed to an instrument: a number of seconds, a Tone time
\* notation such as '8n', or undefined
DNum(r) == [k |-> "num", n |-> r.n, d |-> r.d, s |-> ""]

DStr(str) == [k |-> "str", n |-> 0, d |-> 1, s |-> str]

DUndef == [k |-> "undef", n |-> 0, d |-> 1, s |-> ""]

\* Tone.Time(value).toSeconds()
TimeToSeconds(dv) == IF dv.k = "str" THEN DNum(TicksToSeconds(dv.s)) ELSE dv

\* the class of params.instrument after generateSequence has chosen it
instrumentClass(source) ==
  IF source.field \in {"sample", "buffer"} THEN "Player"
  ELSE IF source.field = "player" THEN "Player"
  ELSE IF source.field = "samples" THEN "Sampler"
  ELSE source.class

\* which branch of getSeqFn the instrument takes
seqFnBranch(class) ==
  IF class = "Player" THEN "Player"
  ELSE IF class \in {"PolySynth", "Sampler"} THEN "Poly"
  ELSE IF class = "NoiseSynth" THEN "Noise"
  ELSE "Mono"

\* a clamped index: the last element once the counter passes the end
cycleIndex_Clamp(counter, len) == IF counter < len THEN counter ELSE len - 1

\* counter % len
cycleIndex(counter, len) == counter % len

\* arr[counter % arr.length]: undefined when arr is empty (the index is NaN)
cycled(arr, counter, undef) ==
  IF Len(arr) = 0 THEN undef ELSE arr[cycleIndex(counter, Len(arr)) + 1]

\* the values random(num) can return: Math.round(Math.random() * num)
randomValues(num) == IF num >= 0 THEN 0..num ELSE {0, -1}

\* arr[i] for any integer i
at(arr, i) == IF i >= 0 /\ i < Len(arr) THEN arr[i + 1] ELSE Undefined

\* getNote: the values it can return
getNote(el, p, counter) ==
  IF el = "R" /\ p.randomNotes.set
  THEN {at(p.randomNotes.v, r) : r \in randomValues(Len(p.randomNotes.v) - 1)}
  ELSE {cycled(p.notes, counter, Undefined)}

\* a getDuration that lets the fixed dur win over the durations list
getDuration_DurFirst(p, counter) ==
  IF p.dur.set THEN DStr(p.dur.v)
  ELSE IF p.durations.set
  THEN cycled([i \in 1..Len(p.durations.v) |-> DNum(p.durations.v[i])], counter, DUndef)
  ELSE DStr(p.subdiv)

\* getDuration (params.subdiv is always set: getDefaultParams gives '4n')
getDuration(p, counter) ==
  IF p.durations.set
  THEN cycled([i \in 1..Len(p.durations.v) |-> DNum(p.durations.v[i])], counter, DUndef)
  ELSE IF p.dur.set THEN DStr(p.dur.v)
  ELSE DStr(p.subdiv)

\* note[0]
firstOf(note) == IF Len(note) = 0 THEN Undefined ELSE <<note[1]>>

\* the leaf events of a Tone.Sequence, in the order they are played
RECURSIVE sequenceEvents(_)
sequenceEvents(toks) ==
  IF toks = <<>> THEN <<>>
  ELSE (IF Head(toks).t = "g" THEN sequenceEvents(Head(toks).m) ELSE <<Head(toks).t>>)
       \o sequenceEvents(Tail(toks))

\* ------------------------------------------------------------------ state
VARIABLES
  apattern,    \* allocator run: the pattern string
  aunit,       \* allocator run: the subdivision length in seconds
  atree,       \* allocator run: expandStr(apattern)
  adurations,  \* allocator run: the list returned by the allocator
  atotal,      \* allocator run: totalPatternDuration(apattern, aunit)
  apc,         \* allocator run: "input", "expanded", "applied", "done"
  given,       \* the ClipParams object the caller passes to clip()
  owner,       \* "clip": clip() alone; "channel": a clip of a Channel
  params,      \* clip()'s own params object (the merged copy)
  hasLoaded,   \* Channel.hasLoaded
  events,      \* the events of the Tone.Sequence, flattened
  counter,     \* the counter closed over by the sequence callback
  pos,         \* index in events of the next event to play (0-based)
  rep,         \* passes of the pattern played so far
  log,         \* the last Window things the callback asked the instrument to play
  triggered,   \* how many things the callback asked the instrument to play
  threw,       \* callback invocations that ended in a TypeError
  seen,        \* sounding steps handed to the callback (once loaded)
  lcmI,        \* leastCommonMultiple: i
  lcmSmallest, \* leastCommonMultiple: smallest
  lcmLargest,  \* leastCommonMultiple: largest
  duration,    \* the duration handed to offlineRenderClip
  cpc,         \* "idle", "new", "lcm", "playing", "rendered"
  cvEl,        \* resolver run: the token given to convertChordsToNotes
  cvOut,       \* resolver run: what convertChordsToNotes returned or threw
  cvPc,        \* resolver run: "idle", "input", "done"
  toneContext, \* Tone.getContext(): the global context of Tone
  originalContext,          \* browser-clip's originalContext ("" while undefined)
  ongoingRenderingCounter,  \* browser-clip's ongoingRenderingCounter
  renders,     \* the offline renders started, in the order of their clip() calls
  restoredAt,  \* what held whenever Tone.setContext(originalContext) was executed
  arg,         \* the object the caller passed to the last clip() call
  heap,        \* the arrays and Tone objects that the caller and clip() refer to
  call,        \* the last clip() call: what held before it and what it produced
  spc,         \* "idle", "session", "call", "called"
  chParams,    \* the ChannelParams given to the Channel constructor
  channel,     \* the Channel object: its fields
  clipsFailed, \* the constructor's clipsFailed
  initializerTask,  \* the promise this.initializerTask
  emitted,     \* the events handed to eventCb, in order
  lastOp,      \* the last method called on the channel
  chpc         \* "idle", "new", "constructed", "reported"

allocVars == <<apattern, aunit, atree, adurations, atotal, apc>>

clipVars == <<given, owner, params, hasLoaded, events, counter, pos, rep, log,
              triggered, threw, seen, lcmI, lcmSmallest, lcmLargest, duration, cpc>>

convVars == <<cvEl, cvOut, cvPc>>

sessVars == <<toneContext, originalContext, ongoingRenderingCounter, renders,
              restoredAt, arg, heap, call, spc>>

chanVars == <<chParams, channel, clipsFailed, initializerTask, emitted, lastOp, chpc>>

vars == <<allocVars, clipVars, convVars, sessVars, chanVars>>

\* what an allocator step, a clip step, a resolver step, a session step and a
\* channel step leave alone
outsideAlloc == <<clipVars, convVars, sessVars, chanVars>>

outsideClip == <<allocVars, convVars, sessVars, chanVars>>

outsideConv == <<allocVars, clipVars, sessVars, chanVars>>

outsideSess == <<allocVars, clipVars, convVars, chanVars>>

outsideChan == <<allocVars, clipVars, convVars, sessVars>>

\* no allocator run in progress
AllocIdle ==
  /\ apattern = <<>>
  /\ aunit = RatInt(0)
  /\ atree = <<>>
  /\ adurations = <<>>
  /\ atotal = RatInt(0)
  /\ apc = "idle"

NoParams ==
  [pattern |-> <<>>, notes |-> <<>>, randomNotes |-> None, durations |-> None,
   dur |-> NoStr, subdiv |-> "", class |-> ""]

NoGiven ==
  [pattern |-> <<>>, notes |-> None, randomNotes |-> None, durations |-> None,
   dur |-> NoStr, subdiv |-> "", shuffle |-> FALSE,
   source |-> [field |-> "", class |-> ""], offlineRendering |-> FALSE]

\* no clip in progress
ClipIdle ==
  /\ given = NoGiven
  /\ owner = "clip"
  /\ params = NoParams
  /\ hasLoaded = FALSE
  /\ events = <<>>
  /\ counter = 0
  /\ pos = 0
  /\ rep = 0
  /\ log = <<>>
  /\ triggered = 0
  /\ threw = 0
  /\ seen = 0
  /\ lcmI = 0
  /\ lcmSmallest = 0
  /\ lcmLargest = 0
  /\ duration = RatInt(0)
  /\ cpc = "idle"

\* no token
NoToken == [k |-> "", v |-> <<>>]

\* nothing returned or thrown
NoError == [ok |-> TRUE, v |-> <<>>, type |-> "", msg |-> <<>>]

\* no resolver run in progress
ConvIdle ==
  /\ cvEl = NoToken
  /\ cvOut = NoError
  /\ cvPc = "idle"

\* no Tone object
NoObject == [ctx |-> "", volume |-> 0, connected |-> FALSE]

\* the cells of the heap: those ending in 0 hold what the caller made, those
\* ending in 1 what clip() made
EmptyHeap ==
  [notes0 |-> <<>>, notes1 |-> <<>>, rnd0 |-> <<>>, rnd1 |-> <<>>,
   dur0 |-> <<>>, dur1 |-> <<>>,
   inst0 |-> NoObject, inst1 |-> NoObject, eff0 |-> NoObject, eff1 |-> NoObject]

\* a ClipParams object with no field set: each field holds the name of a
\* heap cell, or "" when the field is absent
NoArg ==
  [pattern |-> <<>>, notes |-> "", randomNotes |-> "", durations |-> "",
   instrument |-> "", effects |-> "", volume |-> 0, shuffle |-> FALSE,
   offlineRendering |-> FALSE, offlineRenderingCallback |-> FALSE]

NoCall ==
  [made |-> FALSE, kind |-> "", error |-> NoError, bound |-> "", params |-> NoArg,
   contextAtCall |-> "", originalBefore |-> "", counterBefore |-> 0,
   originalAfter |-> "", counterAfter |-> 0,
   argBefore |-> NoArg, heapBefore |-> EmptyHeap]

\* no session in progress
SessIdle ==
  /\ toneContext = ""
  /\ originalContext = ""
  /\ ongoingRenderingCounter = 0
  /\ renders = <<>>
  /\ restoredAt = {}
  /\ arg = NoArg
  /\ heap = EmptyHeap
  /\ call = NoCall
  /\ spc = "idle"

NoChannelParams ==
  [clips |-> <<>>, hasClips |-> FALSE, output |-> "", ready |-> FALSE,
   otherContext |-> FALSE, effects |-> "", eventCb |-> ""]

\* no Tone instrument (this.instrument is undefined)
NoInstrument == [class |-> "", loadable |-> FALSE, loaded |-> FALSE, onload |-> FALSE]

NoChannel ==
  [activePatternIdx |-> 0 - 1, channelClips |-> <<>>, hasLoaded |-> FALSE,
   hasFailed |-> NoError, instrument |-> NoInstrument]

NoOp == [op |-> "", idx |-> 0, activeBefore |-> 0 - 1, threw |-> FALSE]

NoTask == [producer |-> "", state |-> "", error |-> NoError, done |-> <<>>]

\* no channel in progress
ChanIdle ==
  /\ chParams = NoChannelParams
  /\ channel = NoChannel
  /\ clipsFailed = NoError
  /\ initializerTask = NoTask
  /\ emitted = <<>>
  /\ lastOp = NoOp
  /\ chpc = "idle"

\* ------------------------------------------- the allocator as a state machine
\* subdivision lengths tried
Units == {RatInt(1), RatInt(4)}

AllocInit ==
  /\ ClipIdle
  /\ ConvIdle
  /\ SessIdle
  /\ ChanIdle
  /\ apattern \in PatternStrings(MaxAllocLen)
  /\ aunit \in Units
  /\ atree = <<>>
  /\ adurations = <<>>
  /\ atotal = RatInt(0)
  /\ apc = "input"

ExpandPattern ==
  /\ apc = "input"
  /\ atree' = expandStr(apattern)
  /\ apc' = "expanded"
  /\ UNCHANGED <<apattern, aunit, adurations, atotal>>
  /\ UNCHANGED outsideAlloc

ApplyPatternToDurations ==
  /\ apc = "expanded"
  /\ adurations' = recursivelyApplyPatternToDurations(atree, aunit, <<>>)
  /\ apc' = "applied"
  /\ UNCHANGED <<apattern, aunit, atree, atotal>>
  /\ UNCHANGED outsideAlloc

TotalPatternDuration ==
  /\ apc = "applied"
  /\ atotal' = totalPatternDuration(apattern, aunit)
  /\ apc' = "done"
  /\ UNCHANGED <<apattern, aunit, atree, adurations>>
  /\ UNCHANGED outsideAlloc

AllocNext == ExpandPattern \/ ApplyPatternToDurations \/ TotalPatternDuration

SpecAlloc == AllocInit /\ [][AllocNext]_vars

\* ------------------------------------------------ clip() as a state machine
NoteTokens == {NoteToken("C4"), ArrayToken(<<"E4", "G4">>)}

SeqsUpTo(S, n) == UNION {[1..k -> S] : k \in 0..n}

\* the notes a caller may give: none (the default applies) or a list
NotesChoices == {None} \cup {Some(l) : l \in SeqsUpTo(NoteTokens, MaxNotes)}

RandomNotesChoices ==
  {None, Some(<<>>), Some(<<NoteToken("A4")>>),
   Some(<<NoteToken("A4"), ArrayToken(<<"E4", "G4">>)>>)}

DurationsChoices == {None, Some(<<>>), Some(<<Rat(1, 4), Rat(3, 4)>>)}

DurChoices == {NoStr, SomeStr("8n")}

\* the sound sources of a clip() call: a sample (a Tone.Player is made),
\* samples (a Tone.Sampler is made), an instrument of the caller
ClipSources ==
  {[field |-> "sample", class |-> "url"],
   [field |-> "samples", class |-> "urls"],
   [field |-> "instrument", class |-> "NoiseSynth"],
   [field |-> "instrument", class |-> "Synth"]}

\* the output of a Channel: its instrument, or an external output
ChannelSources ==
  {[field |-> "instrument", class |-> "PolySynth"],
   [field |-> "instrument", class |-> "Synth"],
   [field |-> "external", class |-> "External"]}

\* clips that vary the pitch sources and take their durations from the pattern
\* the outputs of a Channel that are given no pitch: a Tone.Player made from
\* a sample, a NoiseSynth
ChannelUnpitchedSources ==
  {[field |-> "sample", class |-> "url"],
   [field |-> "instrument", class |-> "NoiseSynth"]}

PitchGivens(sources, offline) ==
  [pattern : PatternStrings(MaxPatLen),
   notes : NotesChoices,
   randomNotes : RandomNotesChoices,
   durations : {None},
   dur : {NoStr},
   subdiv : {"4n"},
   shuffle : {FALSE},
   source : sources,
   offlineRendering : offline]

\* clips that vary the duration sources over a one-note or empty notes list
DurationGivens(sources, offline) ==
  [pattern : PatternStrings(MaxPatLen),
   notes : {Some(<<NoteToken("C4")>>), Some(<<>>)},
   randomNotes : {None},
   durations : DurationsChoices,
   dur : DurChoices,
   subdiv : {"4n"},
   shuffle : {FALSE},
   source : sources,
   offlineRendering : offline]

Givens(sources, offline) ==
  PitchGivens(sources, offline) \cup DurationGivens(sources, offline)

ClipInit ==
  /\ AllocIdle
  /\ ConvIdle
  /\ SessIdle
  /\ ChanIdle
  /\ \/ owner = "clip" /\ given \in Givens(ClipSources, BOOLEAN)
     \/ /\ owner = "channel"
        /\ given \in Givens(ChannelSources, {FALSE})
                       \cup DurationGivens(ChannelUnpitchedSources, {FALSE})
  /\ params = NoParams
  /\ hasLoaded = FALSE
  /\ events = <<>>
  /\ counter = 0
  /\ pos = 0
  /\ rep = 0
  /\ log = <<>>
  /\ triggered = 0
  /\ threw = 0
  /\ seen = 0
  /\ lcmI = 0
  /\ lcmSmallest = 0
  /\ lcmLargest = 0
  /\ duration = RatInt(0)
  /\ cpc = "new"

\* params = { ...getDefaultParams(), ...params } and the resolution of notes
\* and randomNotes in clip()
mergedParams(g) ==
  [pattern |-> g.pattern,
   notes |-> mapConvert(IF g.notes.set THEN g.notes.v ELSE defaultNotes),
   randomNotes |-> IF g.randomNotes.set THEN Some(mapConvert(g.randomNotes.v)) ELSE None,
   durations |-> g.durations,
   dur |-> g.dur,
   subdiv |-> g.subdiv,
   class |-> g.source.class]

\* generateSequence: the durations list and the instrument it leaves in params
generatedParams(p, source) ==
  [p EXCEPT
     !.durations =
        IF ~p.durations.set /\ ~p.dur.set
        THEN Some(recursivelyApplyPatternToDurations(
                    expandStr(p.pattern), TicksToSeconds(p.subdiv), <<>>))
        ELSE p.durations,
     !.class = instrumentClass(source)]

\* clip() without offline rendering: merge, resolve, generateSequence
ClipLive ==
  /\ cpc = "new"
  /\ ~given.offlineRendering
  /\ params' = generatedParams(mergedParams(given), given.source)
  /\ events' = sequenceEvents(expandStr(given.pattern))
  /\ counter' = 0
  /\ cpc' = "playing"
  /\ UNCHANGED <<given, owner, hasLoaded, pos, rep, log, triggered, threw, seen,
                 lcmI, lcmSmallest, lcmLargest, duration>>
  /\ UNCHANGED outsideClip

\* number of c in the pattern string
countChar(pattern, c) == Len(SelectSeq(pattern, LAMBDA ch : ch = c))

\* renderingDuration: patternNotesCount
patternNotesCount(pattern, randomNotes) ==
  IF randomNotes.set /\ Len(randomNotes.v) > 0
  THEN countChar(pattern, "x")
  ELSE countChar(pattern, "x") + countChar(pattern, "R")

\* renderingDuration: notes.length || 1
notesCount(notes) == IF Len(notes) = 0 THEN 1 ELSE Len(notes)

\* i % smallest === 0 (i % 0 is NaN, which is not 0)
remainderIsZero(i, smallest) == smallest # 0 /\ i % smallest = 0

\* clip() with offline rendering, up to the entry of the loop of
\* leastCommonMultiple(notesCount, patternNotesCount)
ClipOffline ==
  /\ cpc = "new"
  /\ given.offlineRendering
  /\ LET p == mergedParams(given)
         n1 == notesCount(p.notes)
         n2 == patternNotesCount(p.pattern, p.randomNotes)
     IN /\ params' = p
        /\ lcmSmallest' = IF n1 < n2 THEN n1 ELSE n2
        /\ lcmLargest' = IF n1 < n2 THEN n2 ELSE n1
        /\ lcmI' = IF n1 < n2 THEN n2 ELSE n1
  /\ cpc' = "lcm"
  /\ UNCHANGED <<given, owner, hasLoaded, events, counter, pos, rep, log, triggered,
                 threw, seen, duration>>
  /\ UNCHANGED outsideClip

\* the largest least common multiple two counts of a clip can have
LoopCap == (MaxNotes + 1) * (MaxPatLen + 1)

\* one iteration of the while loop of leastCommonMultiple
LcmIterate ==
  /\ cpc = "lcm"
  /\ ~remainderIsZero(lcmI, lcmSmallest)
  /\ lcmI <= LoopCap
  /\ lcmI' = lcmI + lcmLargest
  /\ UNCHANGED <<given, owner, params, hasLoaded, events, counter, pos, rep,
                 log, triggered, threw, seen, lcmSmallest, lcmLargest, duration, cpc>>
  /\ UNCHANGED outsideClip

\* (totalPatternDuration / patternNotesCount) * leastCommonMultiple
renderingDurationValue(pattern, subdiv, count, lcm) ==
  Rat(totalPatternDuration(pattern, TicksToSeconds(subdiv)).n * lcm,
      totalPatternDuration(pattern, TicksToSeconds(subdiv)).d * count)

\* leastCommonMultiple returns i; renderingDuration returns; offlineRenderClip
\* starts Tone.Offline, whose callback runs generateSequence and starts the
\* sequence in the offline context
LcmReturn ==
  /\ cpc = "lcm"
  /\ remainderIsZero(lcmI, lcmSmallest)
  /\ duration' = renderingDurationValue(
                    params.pattern, params.subdiv,
                    patternNotesCount(params.pattern, params.randomNotes), lcmI)
  /\ params' = generatedParams(params, given.source)
  /\ events' = sequenceEvents(expandStr(given.pattern))
  /\ counter' = 0
  /\ cpc' = "playing"
  /\ UNCHANGED <<given, owner, hasLoaded, pos, rep, log, triggered, threw, seen,
                 lcmI, lcmSmallest, lcmLargest>>
  /\ UNCHANGED outsideClip

\* the reconcile step of the Channel constructor: hasLoaded = true
ChannelLoaded ==
  /\ owner = "channel"
  /\ cpc = "playing"
  /\ ~hasLoaded
  /\ hasLoaded' = TRUE
  /\ UNCHANGED <<given, owner, params, events, counter, pos, rep, log, triggered, threw,
                 seen, lcmI, lcmSmallest, lcmLargest, duration, cpc>>
  /\ UNCHANGED outsideClip

\* the time the sequence has played for: rep passes of the pattern
elapsed == RatMulInt(totalPatternDuration(params.pattern, TicksToSeconds(params.subdiv)), rep)

\* the transport still runs: always for a live sequence (followed for
\* MaxReps passes), up to the rendering duration for an offline one
StillPlaying ==
  IF given.offlineRendering
  THEN pos > 0 \/ ~RatLeq(duration, elapsed)
  ELSE rep < MaxReps

\* which callback the sequence got
branchOf(own, source, class) ==
  IF own = "channel" /\ source.field = "external" THEN "External"
  ELSE seqFnBranch(class)

\* the last Window entries of the log with entry added
remember(l, entry) ==
  IF Len(l) < Window THEN Append(l, entry) ELSE Append(Tail(l), entry)

\* after an event: the next position
Advance ==
  /\ pos' = (pos + 1) % Len(events)
  /\ rep' = IF pos + 1 = Len(events) THEN rep + 1 ELSE rep

\* the condition without the test of hasLoaded
sounds_Unguarded(own, loaded, el) == el \in {"x", "R"}

\* the condition of every callback: el === 'x' || el === 'R', and in the
\* callbacks of a Channel this.hasLoaded as well
sounds(own, loaded, el) == el \in {"x", "R"} /\ (own = "channel" => loaded)

\* one invocation of the sequence callback (time, el)
SeqCallback ==
  /\ cpc = "playing"
  /\ Len(events) > 0
  /\ StillPlaying
  /\ Advance
  /\ LET el == events[pos + 1]
         branch == branchOf(owner, given.source, params.class)
         sounding == sounds(owner, hasLoaded, el)
     IN /\ seen' = IF sounding THEN seen + 1 ELSE seen
        /\ IF ~sounding
           THEN UNCHANGED <<counter, log, triggered, threw>>
           ELSE IF branch = "Player"
           THEN /\ log' = remember(log, [el |-> el, branch |-> branch, counter |-> counter,
                                        note |-> <<>>, dur |-> DUndef])
                /\ counter' = counter + 1
                /\ triggered' = triggered + 1
                /\ UNCHANGED threw
           ELSE IF branch = "Noise"
           THEN /\ log' = remember(log, [el |-> el, branch |-> branch, counter |-> counter,
                                        note |-> <<>>, dur |-> getDuration(params, counter)])
                /\ counter' = counter + 1
                /\ triggered' = triggered + 1
                /\ UNCHANGED threw
           ELSE \E note \in getNote(el, params, counter) :
                  IF branch = "Poly"
                  THEN /\ log' = remember(log, [el |-> el, branch |-> branch,
                                               counter |-> counter, note |-> note,
                                               dur |-> getDuration(params, counter)])
                       /\ counter' = counter + 1
                       /\ triggered' = triggered + 1
                       /\ UNCHANGED threw
                  ELSE IF note = Undefined
                  THEN /\ threw' = threw + 1
                       /\ UNCHANGED <<counter, log, triggered>>
                  ELSE /\ log' = remember(log, [el |-> el, branch |-> branch,
                                               counter |-> counter, note |-> firstOf(note),
                                               dur |-> IF branch = "External"
                                                       THEN TimeToSeconds(getDuration(params, counter))
                                                       ELSE getDuration(params, counter)])
                       /\ counter' = counter + 1
                       /\ triggered' = triggered + 1
                       /\ UNCHANGED threw
  /\ UNCHANGED <<given, owner, params, hasLoaded, events, lcmI, lcmSmallest,
                 lcmLargest, duration, cpc>>
  /\ UNCHANGED outsideClip

\* Tone.Offline has rendered the whole duration: the buffer is ready
RenderComplete ==
  /\ cpc = "playing"
  /\ given.offlineRendering
  /\ ~(Len(events) > 0 /\ StillPlaying)
  /\ cpc' = "rendered"
  /\ UNCHANGED <<given, owner, params, hasLoaded, events, counter, pos, rep,
                 log, triggered, threw, seen, lcmI, lcmSmallest, lcmLargest, duration>>
  /\ UNCHANGED outsideClip

Next ==
  \/ ClipLive
  \/ ClipOffline
  \/ LcmIterate
  \/ LcmReturn
  \/ ChannelLoaded
  \/ SeqCallback
  \/ RenderComplete

Spec == ClipInit /\ [][Next]_vars

\* --------------------------------- convertChordsToNotes as a state machine
\* the strings handed to the resolver: pitch names, a chord name, and two
\* strings that are neither
TokenStrings == NoteNames \cup {"CM", "H9", "Zz"}

\* the elements of the arrays handed to the resolver
ArrayElements == {"C4", "E4", "G4", "H9"}

ConvertInputs ==
  {StringToken(str) : str \in TokenStrings}
    \cup {ArrayToken(l) : l \in SeqsUpTo(ArrayElements, MaxArrLen)}

ConvInit ==
  /\ AllocIdle
  /\ ClipIdle
  /\ SessIdle
  /\ ChanIdle
  /\ cvEl \in ConvertInputs
  /\ cvOut = NoError
  /\ cvPc = "input"

ConvertToken ==
  /\ cvPc = "input"
  /\ cvOut' = convertChordsToNotes(cvEl)
  /\ cvPc' = "done"
  /\ UNCHANGED cvEl
  /\ UNCHANGED outsideConv

ConvNext == ConvertToken

SpecConvert == ConvInit /\ [][ConvNext]_vars

\* ------------------------------------- a session of clip() calls and renders
\* the contexts the application switches Tone between
Contexts == {"ctxA", "ctxB"}

\* a Tone instrument or effect made in context c, not yet connected
ToneObject(c) == [ctx |-> c, volume |-> 0, connected |-> FALSE]

\* the pattern strings whose validation is followed: legal and illegal characters
CallPatterns == UNION {[1..k -> {"x", "-", "y"}] : k \in 1..MaxCallLen}

\* a ClipParams object and the heap that holds what its fields refer to
MakeInput(pattern, notes, randomNotes, durations, inst, eff, volume, shuffle, offline, callback) ==
  [a |-> [pattern |-> pattern,
          notes |-> IF notes.set THEN "notes0" ELSE "",
          randomNotes |-> IF randomNotes.set THEN "rnd0" ELSE "",
          durations |-> IF durations.set THEN "dur0" ELSE "",
          instrument |-> IF inst = "" THEN "" ELSE "inst0",
          effects |-> IF eff = "" THEN "" ELSE "eff0",
          volume |-> volume,
          shuffle |-> shuffle,
          offlineRendering |-> offline,
          offlineRenderingCallback |-> callback],
   h |-> [EmptyHeap EXCEPT
            !.notes0 = notes.v,
            !.rnd0 = randomNotes.v,
            !.dur0 = durations.v,
            !.inst0 = IF inst = "" THEN NoObject ELSE ToneObject(inst),
            !.eff0 = IF eff = "" THEN NoObject ELSE ToneObject(eff)]]

\* calls that vary the pattern and the notes, on an instrument of the caller
ValidationInputs ==
  {MakeInput(pattern, notes, None, None, "ctxA", "", 0, FALSE, FALSE, FALSE) :
     pattern \in CallPatterns,
     notes \in {None, Some(<<ArrayToken(<<"H9">>)>>), Some(<<StringToken("Zz")>>)}}

\* calls that vary the sound source, offline rendering and its callback
SourceInputs ==
  {MakeInput(<<"x">>, None, None, None, inst, "", 0, FALSE, offline, callback) :
     inst \in {"", "ctxA"}, offline \in BOOLEAN, callback \in BOOLEAN}

\* calls that vary what the fields of the caller's object refer to
SharingInputs ==
  {MakeInput(<<"x">>, Some(<<StringToken("C4"), StringToken("CM")>>), randomNotes,
             durations, inst, eff, volume, shuffle, FALSE, FALSE) :
     randomNotes \in {None, Some(<<StringToken("A4")>>)},
     durations \in {None, Some(<<Rat(1, 4)>>)},
     inst \in Contexts, eff \in {"", "ctxA"}, volume \in {0, 0 - 6},
     shuffle \in BOOLEAN}

CallInputs == ValidationInputs \cup SourceInputs \cup SharingInputs

\* /[^x\-_\[\]R]/.test(pattern)
patternIllegal(pattern) == \E i \in 1..Len(pattern) : pattern[i] \notin Alphabet

\* the TypeError clip() throws for such a pattern: the text and the pattern
patternError(pattern) ==
  Thrown("TypeError", <<"pattern can only comprise x - _ [ ], found ">> \o pattern)

\* the orders utils.shuffle can leave an array in
shuffleOrders(list) ==
  {[i \in 1..Len(list) |-> list[f[i]]] :
     f \in {g \in [1..Len(list) -> 1..Len(list)] :
              \A i, j \in 1..Len(list) : g[i] = g[j] => i = j}}

\* what a clip() call produced: kind is "threw", "sequence" or "player"
Outcome(kind, error, h, p, bound) ==
  [kind |-> kind, error |-> error, heap |-> h, params |-> p, bound |-> bound]

\* generateSequence(params, context) on the heap h
generateSequence(p, h, context) ==
  IF Len(p.pattern) = 0
  THEN Outcome("threw", Thrown("Error", <<"No pattern provided!">>), h, p, "")
  ELSE IF p.instrument = ""
  THEN Outcome("threw", Thrown("Error", <<"No player or instrument provided!">>), h, p, "")
  ELSE
    LET fill == p.durations = ""
        hd == IF fill
              THEN [h EXCEPT !.dur1 = recursivelyApplyPatternToDurations(
                                        expandStr(p.pattern), TicksToSeconds("4n"), <<>>)]
              ELSE h
        he == IF p.effects = "" THEN hd
              ELSE IF hd[p.effects].ctx # context
              THEN [hd EXCEPT !.eff1 = [ctx |-> context, volume |-> hd[p.effects].volume,
                                        connected |-> TRUE]]
              ELSE [hd EXCEPT ![p.effects].connected = TRUE]
        recreate == he[p.instrument].ctx # context
        hi == IF recreate
              THEN [he EXCEPT !.inst1 = [ctx |-> context, volume |-> he[p.instrument].volume,
                                         connected |-> FALSE]]
              ELSE he
        inst == IF recreate THEN "inst1" ELSE p.instrument
        hv == IF p.volume # 0 THEN [hi EXCEPT ![inst].volume = p.volume] ELSE hi
        hc == [hv EXCEPT ![inst].connected = TRUE]
    IN Outcome("sequence", NoError, hc,
               [p EXCEPT !.durations = IF fill THEN "dur1" ELSE p.durations,
                         !.effects = IF p.effects # "" /\ hd[p.effects].ctx # context
                                     THEN "eff1" ELSE p.effects,
                         !.instrument = inst],
               context)

\* clip() from the resolution of randomNotes on
resolveRandomNotes(p, h, original, tone) ==
  IF p.randomNotes # "" /\ throwingAt(h[p.randomNotes]) # {}
  THEN Outcome("threw", mapError(h[p.randomNotes]), h, p, "")
  ELSE
    LET hr == IF p.randomNotes # ""
              THEN [h EXCEPT !.rnd1 = mapConvert(h[p.randomNotes])] ELSE h
        pr == IF p.randomNotes # "" THEN [p EXCEPT !.randomNotes = "rnd1"] ELSE p
    IN IF pr.offlineRendering
       THEN Outcome("player", NoError, hr, pr, IF original # "" THEN original ELSE tone)
       ELSE generateSequence(pr, hr, IF original # "" THEN original ELSE tone)

\* the outcomes clip(a) can have on the heap h when the module's
\* originalContext is original and Tone's context is tone
clipOutcomes(a, h, original, tone) ==
  LET h0 == IF a.notes = "" THEN [h EXCEPT !.notes1 = defaultNotes] ELSE h
      p0 == IF a.notes = "" THEN [a EXCEPT !.notes = "notes1"] ELSE a
  IN IF throwingAt(h0[p0.notes]) # {}
     THEN {Outcome("threw", mapError(h0[p0.notes]), h0, p0, "")}
     ELSE
       LET h1 == [h0 EXCEPT !.notes1 = mapConvert(h0[p0.notes])]
           p1 == [p0 EXCEPT !.notes = "notes1"]
       IN IF patternIllegal(p1.pattern)
          THEN {Outcome("threw", patternError(p1.pattern), h1, p1, "")}
          ELSE IF p1.shuffle
          THEN {resolveRandomNotes(p1, [h1 EXCEPT ![p1.notes] = order], original, tone) :
                  order \in shuffleOrders(h1[p1.notes])}
          ELSE {resolveRandomNotes(p1, h1, original, tone)}

\* a render of offlineRenderClip: st is "started" (Tone.Offline called),
\* "rendering" (its callback has run), "failed" (its callback threw) or
\* "done" (its buffer was delivered)
Render(hasSource, hasCallback) ==
  [st |-> "started", hasSource |-> hasSource, hasCallback |-> hasCallback, called |-> 0]

\* the renders started and not completed
InFlight(rs) == {r \in 1..Len(rs) : rs[r].st # "done"}

SessInit ==
  /\ AllocIdle
  /\ ClipIdle
  /\ ConvIdle
  /\ ChanIdle
  /\ toneContext = "ctxA"
  /\ originalContext = ""
  /\ ongoingRenderingCounter = 0
  /\ renders = <<>>
  /\ restoredAt = {}
  /\ arg = NoArg
  /\ heap = EmptyHeap
  /\ call = NoCall
  /\ spc = "session"

\* one call clip(params) with params drawn from inputs, with offlineRenderClip
\* when offline rendering is asked
clipCalled(inputs) ==
  /\ \E in \in inputs :
       /\ in.a.offlineRendering => Len(renders) < MaxRenders
       /\ \E out \in clipOutcomes(in.a, in.h, originalContext, toneContext) :
            LET original == IF out.kind = "player" /\ originalContext = ""
                            THEN toneContext ELSE originalContext
                count == IF out.kind = "player"
                         THEN ongoingRenderingCounter + 1 ELSE ongoingRenderingCounter
            IN /\ arg' = in.a
               /\ heap' = out.heap
               /\ originalContext' = original
               /\ ongoingRenderingCounter' = count
               /\ renders' = IF out.kind = "player"
                             THEN Append(renders, Render(in.a.instrument # "",
                                                         in.a.offlineRenderingCallback))
                             ELSE renders
               /\ call' = [made |-> TRUE, kind |-> out.kind, error |-> out.error,
                           bound |-> out.bound, params |-> out.params,
                           contextAtCall |-> toneContext,
                           originalBefore |-> originalContext,
                           counterBefore |-> ongoingRenderingCounter,
                           originalAfter |-> original, counterAfter |-> count,
                           argBefore |-> in.a, heapBefore |-> in.h]
  /\ UNCHANGED <<toneContext, restoredAt>>
  /\ UNCHANGED outsideSess

\* a clip() call of the session
ClipCall ==
  /\ spc = "session"
  /\ clipCalled(SourceInputs)
  /\ UNCHANGED spc

\* the callback given to Tone.Offline: generateSequence(params, context) in
\* the offline context, where every Tone object of params is made anew
OfflineCallback ==
  /\ spc = "session"
  /\ \E r \in 1..Len(renders) :
       /\ renders[r].st = "started"
       /\ renders' = [renders EXCEPT
                        ![r].st = IF renders[r].hasSource THEN "rendering" ELSE "failed"]
  /\ UNCHANGED <<toneContext, originalContext, ongoingRenderingCounter, restoredAt,
                 arg, heap, call, spc>>
  /\ UNCHANGED outsideSess

\* a restore that does not wait for the other renders
restoreDue_Always(count) == TRUE

\* ongoingRenderingCounter === 0
restoreDue(count) == count = 0

\* the then-handler of Tone.Offline: the buffer of render r is ready
RenderDone ==
  /\ spc = "session"
  /\ \E r \in 1..Len(renders) :
       /\ renders[r].st = "rendering"
       /\ LET count == ongoingRenderingCounter - 1
              rs == [renders EXCEPT ![r].st = "done"]
          IN /\ ongoingRenderingCounter' = count
             /\ IF restoreDue(count)
                THEN /\ toneContext' = originalContext
                     /\ restoredAt' = restoredAt \cup
                          {[counter |-> count, inFlight |-> Cardinality(InFlight(rs))]}
                     /\ renders' = IF rs[r].hasCallback
                                   THEN [rs EXCEPT ![r].called = @ + 1] ELSE rs
                ELSE /\ renders' = rs
                     /\ UNCHANGED <<toneContext, restoredAt>>
  /\ UNCHANGED <<originalContext, arg, heap, call, spc>>
  /\ UNCHANGED outsideSess

\* the application calls Tone.setContext(c)
SetContext ==
  /\ spc = "session"
  /\ \E c \in Contexts :
       /\ c # toneContext
       /\ toneContext' = c
  /\ UNCHANGED <<originalContext, ongoingRenderingCounter, renders, restoredAt,
                 arg, heap, call, spc>>
  /\ UNCHANGED outsideSess

SessNext == ClipCall \/ OfflineCallback \/ RenderDone \/ SetContext

SpecSession == SessInit /\ [][SessNext]_vars

\* ------------------------------------------------ one clip() call on its own
\* the module as earlier clips may have left it: originalContext undefined,
\* or the context of an earlier offline render
CallInit ==
  /\ AllocIdle
  /\ ClipIdle
  /\ ConvIdle
  /\ ChanIdle
  /\ toneContext \in Contexts
  /\ originalContext \in {""} \cup Contexts
  /\ ongoingRenderingCounter = 0
  /\ renders = <<>>
  /\ restoredAt = {}
  /\ arg = NoArg
  /\ heap = EmptyHeap
  /\ call = NoCall
  /\ spc = "call"

\* the call clip(params)
ClipCallOnce ==
  /\ spc = "call"
  /\ clipCalled(CallInputs)
  /\ spc' = "called"

CallNext == ClipCallOnce

SpecCall == CallInit /\ [][CallNext]_vars

\* ------------------------------------------------ a Channel as a state machine
\* the clips given to a channel: without a pattern (an empty clip), with a
\* legal pattern, with an illegal one
ChannelClipChoices ==
  {[pattern |-> <<>>], [pattern |-> <<"x">>], [pattern |-> <<"x", "y">>]}

\* what the channel plays through: a Tone instrument, an external output
\* with an init() of its own, or nothing
ChannelOutputs == {"instrument", "external", "none"}

\* the channels whose clips are played: the instrument is ready and in the
\* context of the channel, no effects, an eventCb that returns
ChannelParamsChoices ==
  [clips : SeqsUpTo(ChannelClipChoices, MaxClips), hasClips : {TRUE},
   output : ChannelOutputs, ready : {TRUE}, otherContext : {FALSE},
   effects : {"none"}, eventCb : {"returns"}]
    \cup [clips : {<<>>}, hasClips : {FALSE}, output : ChannelOutputs,
          ready : {TRUE}, otherContext : {FALSE}, effects : {"none"},
          eventCb : {"returns"}]

ChanInit ==
  /\ AllocIdle
  /\ ClipIdle
  /\ ConvIdle
  /\ SessIdle
  /\ chParams \in ChannelParamsChoices
  /\ channel = NoChannel
  /\ clipsFailed = NoError
  /\ initializerTask = NoTask
  /\ emitted = <<>>
  /\ lastOp = NoOp
  /\ chpc = "new"

\* an entry of channelClips: a Tone.Sequence ("seq") or null; told is the
\* last of start() and stop() called on it and at the position it was called
\* with, state its Tone state, and replacement says that it was put in the
\* place of an earlier clip
SeqClip(replacement) ==
  [kind |-> "seq", told |-> "none", at |-> "", state |-> "stopped",
   replacement |-> replacement]

NullClip(replacement) ==
  [kind |-> "null", told |-> "none", at |-> "", state |-> "stopped",
   replacement |-> replacement]

UndefinedClip ==
  [kind |-> "undefined", told |-> "none", at |-> "", state |-> "stopped",
   replacement |-> FALSE]

\* this.channelClips[idx], idx counted from 0
clipAt(clips, idx) ==
  IF idx >= 0 /\ idx < Len(clips) THEN clips[idx + 1] ELSE UndefinedClip

\* what clip(clipParams, channel) throws, if anything
clipCompileError(cp) ==
  IF patternIllegal(cp.pattern) THEN patternError(cp.pattern) ELSE NoError

\* idx || this.channelClips.length (idx is -1 when the argument is left out)
addClipIndex(idx, length) == IF idx = 0 - 1 \/ idx = 0 THEN length ELSE idx

\* channelClips after channelClips[target] = entry, target <= length
assignClip(clips, target, entry) ==
  IF target = Len(clips) THEN Append(clips, entry)
  ELSE [clips EXCEPT ![target + 1] = entry]

\* addClip(cp, idx): the error thrown and the channelClips it leaves
addClip(clips, cp, idx) ==
  LET target == addClipIndex(idx, Len(clips))
      replacement == target < Len(clips)
  IN IF Len(cp.pattern) > 0
     THEN IF clipCompileError(cp).ok
          THEN [error |-> NoError, clips |-> assignClip(clips, target, SeqClip(replacement))]
          ELSE [error |-> clipCompileError(cp), clips |-> clips]
     ELSE [error |-> NoError, clips |-> assignClip(clips, target, NullClip(replacement))]

\* the forEach of the constructor from clip i on: it ends at the first clip
\* that throws, with the error annotated by the clip's number
RECURSIVE addClipsFrom(_, _, _)
addClipsFrom(given_clips, i, clips) ==
  IF i > Len(given_clips) THEN [error |-> NoError, clips |-> clips]
  ELSE
    LET added == addClip(clips, given_clips[i], 0 - 1)
    IN IF added.error.ok
       THEN addClipsFrom(given_clips, i + 1, added.clips)
       ELSE [error |-> Thrown("Error", added.error.msg \o <<" in clip ", ToString(i)>>),
             clips |-> clips]

Constructed == chpc \in {"constructed", "reported"}

\* this.instrument after the executor of initOutputProducer has run: a synth
\* (it has no loaded property), a Tone.Player or Tone.Sampler the channel
\* makes (loading, with an onload option) or is given (loaded or not)
instrumentOf(p) ==
  IF p.output \in {"instrument", "synthName", "synthObject", "instrumentName"}
  THEN [class |-> "Synth", loadable |-> FALSE, loaded |-> FALSE, onload |-> FALSE]
  ELSE IF p.output = "sample"
  THEN [class |-> "Player", loadable |-> TRUE, loaded |-> FALSE, onload |-> TRUE]
  ELSE IF p.output = "samples"
  THEN [class |-> "Sampler", loadable |-> TRUE, loaded |-> FALSE, onload |-> TRUE]
  ELSE IF p.output = "sampler"
  THEN [class |-> "Sampler", loadable |-> TRUE, loaded |-> p.ready, onload |-> FALSE]
  ELSE IF p.output = "player"
  THEN [class |-> "Player", loadable |-> TRUE, loaded |-> p.ready, onload |-> FALSE]
  ELSE NoInstrument

\* checkToneObjLoaded(toneObject, resolve): resolve() is called right away,
\* or put behind the onload of the object or of its buffer, or neither (a
\* Sampler that is still loading)
checkToneObjLoaded(toneObject) ==
  IF ~toneObject.loadable THEN "resolve"
  ELSE IF toneObject.loaded THEN "resolve"
  ELSE IF toneObject.class = "Sampler" THEN "nothing"
  ELSE "hook"

\* the promise of initOutputProducer when its executor returns, and the
\* instrument with its onload as the executor leaves it
initOutputProducer(p) ==
  LET made == instrumentOf(p)
      checked == checkToneObjLoaded(made)
  IN IF p.output = "synthAndInstrument"
     THEN [producer |-> "rejected", instrument |-> NoInstrument,
           error |-> Thrown("Error", <<"Either synth or instrument can be provided, but not both.">>)]
     ELSE IF p.output = "none"
     THEN [producer |-> "rejected", instrument |-> NoInstrument,
           error |-> Thrown("Error", <<"One of required synth|instrument|sample|sampler|samples|buffer|player|external is not provided!">>)]
     ELSE IF p.output = "external"
     THEN [producer |-> "pending", instrument |-> NoInstrument, error |-> NoError]
     ELSE IF p.output = "externalNoInit"
     THEN [producer |-> "resolved", instrument |-> NoInstrument, error |-> NoError]
     ELSE IF p.output \in {"sample", "samples"}
     THEN [producer |-> "pending", instrument |-> made, error |-> NoError]
     ELSE [producer |-> IF checked = "resolve" THEN "resolved" ELSE "pending",
           instrument |-> [made EXCEPT !.onload = (checked = "hook")],
           error |-> NoError]

\* the Channel constructor: the async section is started (the executor of
\* initOutputProducer runs), the sync section adds the clips and stashes the
\* first error
Construct ==
  /\ chpc = "new"
  /\ LET added == IF chParams.hasClips
                  THEN addClipsFrom(chParams.clips, 1, <<>>)
                  ELSE [error |-> Thrown("TypeError",
                                         <<"Cannot read properties of undefined">>),
                        clips |-> <<>>]
     IN /\ channel' = [activePatternIdx |-> 0 - 1, channelClips |-> added.clips,
                       hasLoaded |-> FALSE, hasFailed |-> NoError,
                       instrument |-> initOutputProducer(chParams).instrument]
        /\ clipsFailed' = added.error
  /\ initializerTask' =
       [producer |-> initOutputProducer(chParams).producer, state |-> "pending",
        error |-> initOutputProducer(chParams).error, done |-> <<>>]
  /\ chpc' = "constructed"
  /\ UNCHANGED <<chParams, emitted, lastOp>>
  /\ UNCHANGED outsideChan

\* the init() of the external output settles: it has resolved or rejected
InitSettles ==
  /\ chpc = "constructed"
  /\ chParams.output = "external"
  /\ initializerTask.producer = "pending"
  /\ \/ initializerTask' = [initializerTask EXCEPT !.producer = "resolved"]
     \/ initializerTask' =
          [initializerTask EXCEPT
             !.producer = "rejected",
             !.error = Thrown("Error", <<"init failed", " loading external output module of channel idx ">>)]
  /\ UNCHANGED <<chParams, channel, clipsFailed, emitted, lastOp, chpc>>
  /\ UNCHANGED outsideChan

\* the Player or Sampler of the channel finishes loading: its onload, if the
\* channel has one in place, runs checkToneObjLoaded, which calls resolve()
AudioLoads ==
  /\ Constructed
  /\ channel.instrument.loadable
  /\ ~channel.instrument.loaded
  /\ channel' = [channel EXCEPT !.instrument.loaded = TRUE]
  /\ initializerTask' =
       IF channel.instrument.onload /\ initializerTask.producer = "pending"
       THEN [initializerTask EXCEPT !.producer = "resolved"]
       ELSE initializerTask
  /\ UNCHANGED <<chParams, clipsFailed, emitted, lastOp, chpc>>
  /\ UNCHANGED outsideChan

\* a stage of the chain that has completed
StageDone(task, stage) == [task EXCEPT !.done = Append(@, stage)]

\* a stage of the chain that has thrown or rejected
StageFailed(task, e) == [task EXCEPT !.state = "rejected", !.error = e]

\* initInstrument, run when initOutputProducer has resolved: nothing to do
\* in the context of the channel; an instrument of another context is made
\* anew, which Tone lets succeed or fail
initInstrument(p, task) ==
  IF p.output \notin {"external", "externalNoInit"} /\ p.otherContext
  THEN {StageDone(task, "initInstrument"),
        StageFailed(task, Thrown("TypeError", <<"Class constructor cannot be invoked without 'new'">>))}
  ELSE {StageDone(task, "initInstrument")}

\* adjustInstrument, run when initInstrument has resolved
adjustInstrument(p, task) ==
  IF task.state = "rejected" THEN task ELSE StageDone(task, "adjustInstrument")

\* initEffects without the test of params.external
initEffects_AllowExternal(p, task) ==
  IF task.state = "rejected" THEN task
  ELSE IF p.effects = "otherContext" THEN task
  ELSE [StageDone(task, "initEffects") EXCEPT !.state = "resolved"]

\* initEffects, run when adjustInstrument has resolved: it throws for
\* effects with an external output, and the promise of an effect of another
\* context is never resolved
initEffects(p, task) ==
  IF task.state = "rejected" THEN task
  ELSE IF p.output \in {"external", "externalNoInit"}
  THEN IF p.effects # "none"
       THEN StageFailed(task, Thrown("Error", <<"Effects cannot be used with external output">>))
       ELSE [StageDone(task, "initEffects") EXCEPT !.state = "resolved"]
  ELSE IF p.effects = "otherContext" THEN task
  ELSE [StageDone(task, "initEffects") EXCEPT !.state = "resolved"]

\* this.initializerTask once the promise of initOutputProducer has settled:
\* the chain of then-callbacks, each stage run when the one before resolved
initializerChain(p, task) ==
  IF task.producer = "rejected" THEN {[task EXCEPT !.state = "rejected"]}
  ELSE {initEffects(p, adjustInstrument(p, t)) :
          t \in initInstrument(p, StageDone(task, "initOutputProducer"))}

\* the handlers without the test of clipsFailed
reconciled_IgnoreClips(task, failed, eventCb) ==
  IF task.state = "rejected"
  THEN [hasLoaded |-> FALSE, hasFailed |-> task.error,
        emitted |-> <<[event |-> "error", e |-> task.error]>>]
  ELSE [hasLoaded |-> TRUE, hasFailed |-> NoError,
        emitted |-> <<[event |-> "loaded", e |-> NoError]>>]

\* the then and catch handlers that reconcile the sync and async sections,
\* run when initializerTask has settled: what they leave in hasLoaded and
\* hasFailed and the events they hand to eventCb
reconciled(task, failed, eventCb) ==
  IF task.state = "rejected"
  THEN [hasLoaded |-> FALSE, hasFailed |-> task.error,
        emitted |-> <<[event |-> "error", e |-> task.error]>>]
  ELSE IF ~failed.ok
  THEN [hasLoaded |-> FALSE, hasFailed |-> failed,
        emitted |-> <<[event |-> "error", e |-> failed]>>]
  ELSE IF eventCb = "throws"
  THEN [hasLoaded |-> TRUE, hasFailed |-> Thrown("Error", <<"eventCb threw">>),
        emitted |-> <<[event |-> "loaded", e |-> NoError],
                      [event |-> "error", e |-> Thrown("Error", <<"eventCb threw">>)]>>]
  ELSE [hasLoaded |-> TRUE, hasFailed |-> NoError,
        emitted |-> <<[event |-> "loaded", e |-> NoError]>>]

\* the promise of initOutputProducer has settled: the rest of the chain and
\* the handlers of the constructor run
Reconcile ==
  /\ chpc = "constructed"
  /\ initializerTask.producer \in {"resolved", "rejected"}
  /\ initializerTask.done = <<>>
  /\ initializerTask.state = "pending"
  /\ \E task \in initializerChain(chParams, initializerTask) :
       /\ initializerTask' = task
       /\ IF task.state = "pending"
          THEN UNCHANGED <<channel, emitted, chpc>>
          ELSE LET r == reconciled(task, clipsFailed, chParams.eventCb)
               IN /\ channel' = [channel EXCEPT !.hasLoaded = r.hasLoaded,
                                                !.hasFailed = r.hasFailed]
                  /\ emitted' = emitted \o r.emitted
                  /\ chpc' = "reported"
  /\ UNCHANGED <<chParams, clipsFailed, lastOp>>
  /\ UNCHANGED outsideChan

\* channel.addClip(cp, idx)
AddClip ==
  /\ Constructed
  /\ \E cp \in ChannelClipChoices, idx \in (0 - 1)..(MaxClips - 1) :
       LET added == addClip(channel.channelClips, cp, idx)
       IN /\ addClipIndex(idx, Len(channel.channelClips)) <= Len(channel.channelClips)
          /\ addClipIndex(idx, Len(channel.channelClips)) < MaxClips
          /\ channel' = [channel EXCEPT !.channelClips = added.clips]
          /\ lastOp' = [op |-> "addClip", idx |-> idx, activeBefore |-> 0 - 1,
                        threw |-> ~added.error.ok]
  /\ UNCHANGED <<chParams, clipsFailed, initializerTask, emitted, chpc>>
  /\ UNCHANGED outsideChan

\* Tone.Transport.position as <<bars, quarters>> at the time of a call
TransportPositions == {<<0, 0>>, <<1, 0>>}

\* the position arguments of startClip and stopClip: left out (""), the
\* number 0 ("0"), a position string
PositionArguments == {"", "0", "2:0:0"}

\* getNextPos(): 0 while the transport is around 0:0, else the next bar
getNextPos(transport) ==
  IF transport[1] = 0 /\ transport[2] = 0 THEN "0"
  ELSE ToString(transport[1] + 1) \o ":0:0"

\* position || (position === 0 ? 0 : getNextPos())
resolvePosition(position, transport) ==
  IF position \notin {"", "0"} THEN position
  ELSE IF position = "0" THEN "0"
  ELSE getNextPos(transport)

\* stopClip(idx, position) on the fields of the channel: the TypeError of
\* calling stop() on a clip that is null or undefined, or the fields it leaves
stopClip(ch, idx, position, transport) ==
  IF clipAt(ch.channelClips, idx).kind # "seq" THEN [threw |-> TRUE, channel |-> ch]
  ELSE [threw |-> FALSE,
        channel |-> [ch EXCEPT
                       !.channelClips[idx + 1].told = "stop",
                       !.channelClips[idx + 1].at = resolvePosition(position, transport),
                       !.activePatternIdx = IF idx = ch.activePatternIdx THEN 0 - 1 ELSE @]]

\* startClip without the stop of the clip that is running
startClip_NoStop(ch, idx, position, transport) ==
  IF clipAt(ch.channelClips, idx).kind = "seq"
     /\ clipAt(ch.channelClips, idx).state # "started"
  THEN [threw |-> FALSE,
        channel |-> [ch EXCEPT !.activePatternIdx = idx,
                               !.channelClips[idx + 1].told = "start",
                               !.channelClips[idx + 1].at =
                                  resolvePosition(position, transport)]]
  ELSE [threw |-> FALSE, channel |-> ch]

\* startClip(idx, position) on the fields of the channel
startClip(ch, idx, position, transport) ==
  LET resolved == resolvePosition(position, transport)
      stopped == IF ch.activePatternIdx > 0 - 1 /\ ch.activePatternIdx # idx
                 THEN stopClip(ch, ch.activePatternIdx, resolved, transport)
                 ELSE [threw |-> FALSE, channel |-> ch]
      c1 == stopped.channel
  IN IF stopped.threw THEN stopped
     ELSE IF clipAt(c1.channelClips, idx).kind = "seq"
             /\ clipAt(c1.channelClips, idx).state # "started"
     THEN [threw |-> FALSE,
           channel |-> [c1 EXCEPT !.activePatternIdx = idx,
                                  !.channelClips[idx + 1].told = "start",
                                  !.channelClips[idx + 1].at = resolved]]
     ELSE stopped

\* channel.startClip(idx, position)
StartClip ==
  /\ Constructed
  /\ \E idx \in 0..MaxClips, position \in PositionArguments, transport \in TransportPositions :
       /\ channel' = startClip(channel, idx, position, transport).channel
       /\ lastOp' = [op |-> "startClip", idx |-> 0, activeBefore |-> 0 - 1,
                     threw |-> startClip(channel, idx, position, transport).threw]
  /\ UNCHANGED <<chParams, clipsFailed, initializerTask, emitted, chpc>>
  /\ UNCHANGED outsideChan

\* channel.stopClip(idx, position)
StopClip ==
  /\ Constructed
  /\ \E idx \in 0..MaxClips, position \in PositionArguments, transport \in TransportPositions :
       /\ channel' = stopClip(channel, idx, position, transport).channel
       /\ lastOp' = [op |-> "stopClip", idx |-> idx,
                     activeBefore |-> channel.activePatternIdx,
                     threw |-> stopClip(channel, idx, position, transport).threw]
  /\ UNCHANGED <<chParams, clipsFailed, initializerTask, emitted, chpc>>
  /\ UNCHANGED outsideChan

\* the transport reaches the position a start or a stop was scheduled for
TransportAdvances ==
  /\ Constructed
  /\ \E i \in 1..Len(channel.channelClips) :
       LET c == channel.channelClips[i]
           state == IF c.told = "start" THEN "started" ELSE "stopped"
       IN /\ c.kind = "seq"
          /\ c.state # state
          /\ channel' = [channel EXCEPT !.channelClips[i].state = state]
  /\ UNCHANGED <<chParams, clipsFailed, initializerTask, emitted, lastOp, chpc>>
  /\ UNCHANGED outsideChan

ChanNext ==
  \/ Construct
  \/ InitSettles
  \/ Reconcile
  \/ AddClip
  \/ StartClip
  \/ StopClip
  \/ TransportAdvances

SpecChannel == ChanInit /\ [][ChanNext]_vars

\* ------------------------------------------------ the loading of a Channel
\* the output parameters of a channel: none, both synth and instrument, a
\* synth by name or as an object, an instrument by name or as an object, a
\* sample, samples, a sampler, a player, an external output with and
\* without an init()
LoadOutputs ==
  ChannelOutputs \cup {"synthAndInstrument", "synthName", "synthObject", "instrumentName",
                       "sample", "samples", "sampler", "player", "externalNoInit"}

\* the effects parameter: none, effects of the context of the channel,
\* an effect object of another context
EffectsChoices == {"none", "sameContext", "otherContext"}

\* the eventCb parameter: none, a function that returns, one that throws
EventCbChoices == {"none", "returns", "throws"}

LoadParamsChoices ==
  [clips : SeqsUpTo(ChannelClipChoices, MaxClips), hasClips : {TRUE},
   output : LoadOutputs \ {"sampler", "player"}, ready : {TRUE}, otherContext : BOOLEAN,
   effects : EffectsChoices, eventCb : EventCbChoices]
    \cup [clips : SeqsUpTo(ChannelClipChoices, MaxClips), hasClips : {TRUE},
          output : {"sampler", "player"}, ready : BOOLEAN, otherContext : BOOLEAN,
          effects : EffectsChoices, eventCb : EventCbChoices]

LoadInit ==
  /\ AllocIdle
  /\ ClipIdle
  /\ ConvIdle
  /\ SessIdle
  /\ chParams \in LoadParamsChoices
  /\ channel = NoChannel
  /\ clipsFailed = NoError
  /\ initializerTask = NoTask
  /\ emitted = <<>>
  /\ lastOp = NoOp
  /\ chpc = "new"

LoadNext ==
  \/ Construct
  \/ InitSettles
  \/ AudioLoads
  \/ Reconcile

SpecLoad == LoadInit /\ [][LoadNext]_vars

\* every audio object finishes loading, the init() of an external output
\* settles, and the callbacks of settled promises are run
SpecLoadFair ==
  /\ SpecLoad
  /\ WF_vars(Construct)
  /\ WF_vars(InitSettles)
  /\ WF_vars(AudioLoads)
  /\ WF_vars(Reconcile)

\* a channel on which only startClip and stopClip are called
PlayNext ==
  \/ Construct
  \/ StartClip
  \/ StopClip
  \/ TransportAdvances

SpecPlay == ChanInit /\ [][PlayNext]_vars

\* a channel on which only addClip is called
AddNext ==
  \/ Construct
  \/ AddClip

SpecAdd == ChanInit /\ [][AddNext]_vars

\* ------------------------------------------------ claims on the sequence callback
Compiled == cpc \in {"playing", "rendered"}

\* the entries of the log whose instrument is given a pitch
Pitched(e) == e.branch \in {"Poly", "Mono", "External"}

\* what an instrument is given for a chord: all of it, or its first note
Heard(branch, pitches) ==
  IF branch = "Poly" THEN pitches
  ELSE IF pitches = <<>> THEN Undefined ELSE <<pitches[1]>>

\* notes[counter mod |notes|], for a non-empty notes list
NoteAt(c) == params.notes[(c % Len(params.notes)) + 1]

\* the entry took its pitch from notes: a Hit, or a RandomHit of a clip
\* whose randomNotes is not set
FromNotes(e) == e.el = "x" \/ ~params.randomNotes.set

\* C1: every 'x' or 'R' step (of a loaded channel, or of a clip) triggers
\* exactly one note and increments the counter by one, every other step does
\* neither: the counter and the number of triggers both equal the number of
\* sounding steps processed so far.
C1_CounterCountsSoundingSteps ==
  Compiled => (counter = seen /\ triggered = seen)

\* with a pitch source to take from (notes not empty, randomNotes absent or
\* not empty) the counter does count the sounding steps
C1_HoldsWithPitchSources ==
  (Len(params.notes) > 0 /\ (params.randomNotes.set => Len(params.randomNotes.v) > 0)) =>
    C1_CounterCountsSoundingSteps

\* C2 as stated: every Hit takes notes[counter mod |notes|], and with k = |notes|
\* the pitches of sounding steps i and i+k are equal for every i.
C2_PitchPeriodicEveryStep ==
  (Compiled /\ Len(params.notes) > 0) =>
    /\ \A a \in 1..Len(log) :
         (Pitched(log[a]) /\ log[a].el = "x") =>
           log[a].note = Heard(log[a].branch, NoteAt(log[a].counter))
    /\ \A a, b \in 1..Len(log) :
         (/\ Pitched(log[a])
          /\ log[b].counter = log[a].counter + Len(params.notes)) =>
           log[a].note = log[b].note

\* C2 as amended: every Hit, and every RandomHit of a clip without randomNotes,
\* takes notes[counter mod |notes|]; sounding steps i and i+k have the same
\* pitch whenever both take their pitch from notes.
C2_PitchPeriodicFromNotes ==
  (Compiled /\ Len(params.notes) > 0) =>
    /\ \A a \in 1..Len(log) :
         (Pitched(log[a]) /\ FromNotes(log[a])) =>
           log[a].note = Heard(log[a].branch, NoteAt(log[a].counter))
    /\ \A a, b \in 1..Len(log) :
         (/\ Pitched(log[a])
          /\ FromNotes(log[a])
          /\ FromNotes(log[b])
          /\ log[b].counter = log[a].counter + Len(params.notes)) =>
           log[a].note = log[b].note

C2_Witness ==
  /\ Compiled
  /\ Len(params.notes) = 2
  /\ params.notes[1] # params.notes[2]
  /\ params.randomNotes.set
  /\ \E a, b \in 1..Len(log) :
       /\ Pitched(log[a])
       /\ log[a].el = "x"
       /\ log[b].el = "x"
       /\ log[b].counter = log[a].counter + 2
       /\ \E m \in 1..Len(log) : log[m].el = "R" /\ log[m].counter = log[a].counter + 1

\* C3: a RandomHit takes an element of randomNotes when randomNotes is
\* non-empty, and notes[counter mod |notes|] when randomNotes is absent, null
\* or empty.
C3_RandomHitPitch ==
  (Compiled /\ Len(params.notes) > 0) =>
    \A a \in 1..Len(log) :
      (Pitched(log[a]) /\ log[a].el = "R") =>
        IF params.randomNotes.set /\ Len(params.randomNotes.v) > 0
        THEN \E r \in 1..Len(params.randomNotes.v) :
               log[a].note = Heard(log[a].branch, params.randomNotes.v[r])
        ELSE log[a].note = Heard(log[a].branch, NoteAt(log[a].counter))

\* the list the allocator derives from the clip's pattern and subdivision
PatternDurations ==
  recursivelyApplyPatternToDurations(
    expandStr(given.pattern), TicksToSeconds(given.subdiv), <<>>)

\* the duration the precedence rule picks for the step with counter c
RuleDuration(c) ==
  IF given.durations.set
  THEN DNum(given.durations.v[(c % Len(given.durations.v)) + 1])
  ELSE IF given.dur.set THEN DStr(given.dur.v)
  ELSE DNum(PatternDurations[(c % Len(PatternDurations)) + 1])

\* C4: the duration of a sounding step is durations[counter mod |durations|]
\* when a durations list is given, else the fixed dur when given, else the
\* pattern-derived list at counter mod its length; that list is computed
\* only when neither durations nor dur is given.
C4_DurationPrecedence ==
  Compiled =>
    /\ params.durations =
         (IF ~given.durations.set /\ ~given.dur.set
          THEN Some(PatternDurations) ELSE given.durations)
    /\ \A a \in 1..Len(log) :
         (/\ log[a].branch # "Player"
          /\ ~(given.durations.set /\ Len(given.durations.v) = 0)) =>
           log[a].dur =
             (IF log[a].branch = "External"
              THEN TimeToSeconds(RuleDuration(log[a].counter))
              ELSE RuleDuration(log[a].counter))

C4_Witness ==
  /\ Compiled
  /\ given.durations.set
  /\ Len(given.durations.v) = 2
  /\ given.dur.set
  /\ \E a \in 1..Len(log) : log[a].branch = "Mono" /\ log[a].counter = 2

\* the least positive integer divisible by both a and b
LeastCommon(a, b) ==
  CHOOSE m \in 1..(a * b) :
    /\ m % a = 0
    /\ m % b = 0
    /\ \A k \in 1..(m - 1) : ~(k % a = 0 /\ k % b = 0)

\* the loop of leastCommonMultiple has passed every value a least common
\* multiple of two counts can have and its condition still holds
LoopRunsOn == cpc = "lcm" /\ lcmI > LoopCap /\ ~remainderIsZero(lcmI, lcmSmallest)

GivenTotal == totalPatternDuration(given.pattern, TicksToSeconds(given.subdiv))

\* the n and s of renderingDuration as the claim words them
ClaimN == IF Len(params.notes) = 0 THEN 1 ELSE Len(params.notes)

ClaimS ==
  IF params.randomNotes.set /\ Len(params.randomNotes.v) > 0
  THEN countChar(given.pattern, "x")
  ELSE countChar(given.pattern, "x") + countChar(given.pattern, "R")

\* what renderingDuration has returned is (totalPatternDuration / s) * lcm(n, s),
\* a whole number lcm(n, s)/s of passes of the pattern
ReturnedValueRight ==
  (Compiled /\ given.offlineRendering) =>
    /\ ClaimS > 0
    /\ duration = Rat(GivenTotal.n * LeastCommon(ClaimN, ClaimS), GivenTotal.d * ClaimS)
    /\ LeastCommon(ClaimN, ClaimS) % ClaimS = 0
    /\ duration = RatMulInt(GivenTotal, LeastCommon(ClaimN, ClaimS) \div ClaimS)

\* C9: renderingDuration returns (totalPatternDuration / s) * lcm(n, s) with
\* n = |notes| (1 if empty) and s the count of 'x' (plus 'R' when randomNotes
\* is absent or empty), lcm being the least positive common multiple: a whole
\* number lcm(n, s)/s of pattern repetitions.
C9_RenderingDurationReturns == ~LoopRunsOn /\ ReturnedValueRight

HasSounding(pattern) == countChar(pattern, "x") + countChar(pattern, "R") > 0

\* C10: for a pattern with a sounding step, the rendering duration is found,
\* the capture ends with the counter back at the start of the pitch cycle at
\* the start of the pattern, and at no earlier pattern boundary was it there
\* (read on the runs in which no callback invocation ended in an error).
C10_RealignedExactlyAtEnd ==
  (/\ given.offlineRendering
   /\ HasSounding(given.pattern)
   /\ Len(params.notes) > 0
   /\ threw = 0) =>
    /\ ~LoopRunsOn
    /\ cpc = "rendered" => (pos = 0 /\ counter % Len(params.notes) = 0)
    /\ (cpc = "playing" /\ pos = 0 /\ rep > 0 /\ StillPlaying) =>
         counter % Len(params.notes) # 0

\* C16: a clip whose notes list is empty while its pattern has a sounding step
\* is not compiled (compiling fails with EmptyPitchSource): no sequence exists
\* whose callback selects a pitch from an empty notes list.
C16_EmptyPitchSourceRejected ==
  (given.notes.set /\ Len(given.notes.v) = 0 /\ HasSounding(given.pattern)) =>
    /\ ~Compiled
    /\ threw = 0

\* ------------------------------------ claims on the callback of a Channel
\* the sounding steps among the first p events of a pass
SoundingBefore(evts, p) ==
  Len(SelectSeq(SubSeq(evts, 1, p), LAMBDA el : el \in {"x", "R"}))

\* the sounding steps the sequence has come to since it started running,
\* whether or not the channel had loaded
RunningCount == rep * SoundingBefore(events, Len(events)) + SoundingBefore(events, pos)

\* the entry the callback has just added to the log
JustTriggered == log'[Len(log')]

\* the callback triggers a note in this step
Triggers == triggered' = triggered + 1

\* the j-th sounding step of the pattern gets the j-th allocated duration,
\* and a step that reads notes gets the pitch at its running count
KeepsItsPlace ==
  /\ (JustTriggered.branch # "Player" /\ ~given.durations.set /\ ~given.dur.set) =>
       JustTriggered.dur =
         (IF JustTriggered.branch = "External"
          THEN TimeToSeconds(DNum(PatternDurations[SoundingBefore(events, pos) + 1]))
          ELSE DNum(PatternDurations[SoundingBefore(events, pos) + 1]))
  /\ (Pitched(JustTriggered) /\ FromNotes(JustTriggered)) =>
       JustTriggered.note = Heard(JustTriggered.branch, NoteAt(RunningCount))

\* C21: in a Channel every triggered note uses the duration and the pitch of
\* its step's own position: the j-th sounding step of a pass gets the j-th
\* allocated duration and the pitch at its running sounding-step count mod
\* |notes|, whenever the channel finished loading (read on the runs in which
\* no callback invocation ended in an error).
C21_ChannelStepKeepsItsPlace ==
  [][(/\ owner = "channel"
      /\ Len(params.notes) > 0
      /\ threw = 0
      /\ Triggers) => KeepsItsPlace]_vars

\* a channel that had loaded before its sequence came to a sounding step
\* does give every step the duration and pitch of its place
C21_HoldsWhenLoadedFirst ==
  [][(/\ owner = "channel"
      /\ Len(params.notes) > 0
      /\ threw = 0
      /\ seen = RunningCount
      /\ Triggers) => KeepsItsPlace]_vars

\* C23: while hasLoaded is false the sequence callback of a channel triggers
\* nothing and does not advance its counter, whatever the output of the
\* channel (external, Player, PolySynth or Sampler, NoiseSynth, other).
C23_UnloadedChannelIsSilent ==
  [][(owner = "channel" /\ ~hasLoaded) =>
       (counter' = counter /\ triggered' = triggered /\ log' = log /\ threw' = threw)]_vars

\* a channel that has not loaded, past two sounding steps of its sequence
C23_Witness ==
  /\ owner = "channel"
  /\ cpc = "playing"
  /\ ~hasLoaded
  /\ RunningCount >= 2
  /\ counter = 0
  /\ branchOf(owner, given.source, params.class) = "Noise"

\* ------------------------------------------------ claims on offline rendering
\* C11: in every interleaving of render starts and completions the
\* ongoingRenderingCounter is the number of renders started and not yet
\* completed, never negative, and Tone.setContext(originalContext) was only
\* ever executed with the counter just back at 0 and no other render in flight.
C11_CounterTracksRendersInFlight ==
  /\ ongoingRenderingCounter = Cardinality(InFlight(renders))
  /\ ongoingRenderingCounter >= 0
  /\ \A e \in restoredAt : e.counter = 0 /\ e.inFlight = 0

\* the render started second completed first, and nothing was restored
C11_Witness ==
  /\ Len(renders) = 2
  /\ renders[1].st = "rendering"
  /\ renders[2].st = "done"
  /\ ongoingRenderingCounter = 1
  /\ restoredAt = {}

\* C12: every clip with an offlineRenderingCallback has had its callback
\* invoked once its own render has finished, whatever the number of renders
\* in flight and the order of their completion.
C12_EveryCallbackInvoked ==
  \A r \in 1..Len(renders) :
    (renders[r].st = "done" /\ renders[r].hasCallback) => renders[r].called = 1

\* the notes of the caller's object resolve without an error
NotesResolve(a, h) == a.notes = "" \/ throwingAt(h[a.notes]) = {}

\* C14: a clip() call with no sound source set (and nothing else wrong) throws
\* the missing-sound-source error at once, returns neither a sequence nor a
\* player, and leaves the count of renders in flight as it was, with
\* offlineRendering false and with offlineRendering true.
C14_MissingSourceFailsSynchronously ==
  (/\ call.made
   /\ call.argBefore.instrument = ""
   /\ ~patternIllegal(call.argBefore.pattern)
   /\ NotesResolve(call.argBefore, call.heapBefore)) =>
    /\ call.kind = "threw"
    /\ call.error = Thrown("Error", <<"No player or instrument provided!">>)
    /\ call.counterAfter = call.counterBefore
    /\ ongoingRenderingCounter =
         Cardinality({r \in 1..Len(renders) : renders[r].st \in {"started", "rendering"}})

\* C19: the sequence of a clip() call without offline rendering is bound to
\* what a call with no earlier clip is bound to, the context Tone had at the
\* call, whatever clips were compiled before, and the call leaves the
\* module's originalContext and ongoingRenderingCounter as they were.
C19_LiveClipReadsOnlyItsSpec ==
  (call.made /\ call.kind = "sequence") =>
    /\ call.bound = call.contextAtCall
    /\ call.originalAfter = call.originalBefore
    /\ call.counterAfter = call.counterBefore

\* ------------------------------------------------ claims on one clip() call
\* the 1-based position of the first character outside the alphabet
FirstIllegal(pattern) ==
  CHOOSE i \in 1..Len(pattern) :
    /\ pattern[i] \notin Alphabet
    /\ \A j \in 1..(i - 1) : pattern[j] \in Alphabet

\* the message has text as one of its parts
Names(msg, text) == \E k \in 1..Len(msg) : msg[k] = text

\* C13: a clip() call on a pattern with a character outside x - _ R [ ] (its
\* notes being resolvable) throws, produces no sequence or player, and the
\* error names the first such character and its zero-based index.
C13_IllegalPatternRejected ==
  (/\ call.made
   /\ patternIllegal(call.argBefore.pattern)
   /\ NotesResolve(call.argBefore, call.heapBefore)) =>
    /\ call.kind = "threw"
    /\ Names(call.error.msg, call.argBefore.pattern[FirstIllegal(call.argBefore.pattern)])
    /\ Names(call.error.msg, ToString(FirstIllegal(call.argBefore.pattern) - 1))

\* the heap cells that hold what the caller's object refers to
CallerCells == {"notes0", "rnd0", "dur0", "inst0", "eff0"}

\* C18: after a clip() call, returned or thrown, the caller's object has the
\* fields it had, and the arrays and Tone objects those fields refer to are
\* as they were before the call.
C18_CallerSpecUntouched ==
  call.made =>
    /\ arg = call.argBefore
    /\ \A c \in CallerCells : heap[c] = call.heapBefore[c]

\* the caller's object keeps its fields and the caller's arrays their elements
C18_HoldsForFieldsAndArrays ==
  call.made =>
    /\ arg = call.argBefore
    /\ \A c \in {"notes0", "rnd0", "dur0"} : heap[c] = call.heapBefore[c]

\* ---------------------------------------------------- claims on the resolver
\* C15: convertChordsToNotes returns a list of at least one pitch or throws:
\* a pitch name gives its singleton; an array gives itself when every element
\* is a pitch name and 'array must comprise valid notes' otherwise; any other
\* token gives the chord's pitches when the lookup has some and 'Chord <token>
\* not found' otherwise. It never returns an empty list.
C15_ResolverReturnsPitches ==
  cvPc = "done" =>
    /\ cvOut.ok => Len(cvOut.v) >= 1
    /\ (cvEl.k = "string" /\ cvEl.v[1] \in NoteNames) => cvOut = Returned(<<cvEl.v[1]>>)
    /\ cvEl.k = "array" =>
         IF \A i \in 1..Len(cvEl.v) : cvEl.v[i] \in NoteNames
         THEN cvOut = Returned(cvEl.v)
         ELSE cvOut = Thrown("TypeError", <<"array must comprise valid notes">>)
    /\ (cvEl.k = "string" /\ cvEl.v[1] \notin NoteNames) =>
         IF chord(cvEl.v[1]) # <<>>
         THEN cvOut = Returned(chord(cvEl.v[1]))
         ELSE cvOut = Thrown("Error", <<"Chord ", cvEl.v[1], " not found">>)

\* every part of C15 but the empty array
C15_HoldsForNonEmptyArrays ==
  (cvEl # ArrayToken(<<>>)) => C15_ResolverReturnsPitches

\* ---------------------------------------------------- claims on the Channel
\* the clips of the constructor's params whose compilation throws
FailingClips ==
  {i \in 1..Len(chParams.clips) :
     Len(chParams.clips[i].pattern) > 0 /\ ~clipCompileError(chParams.clips[i]).ok}

\* the first of them, counted from 1
FirstFailingClip == CHOOSE i \in FailingClips : \A j \in FailingClips : i <= j

\* msg ends with the parts of suffix
EndsWith(msg, suffix) ==
  /\ Len(msg) >= Len(suffix)
  /\ SubSeq(msg, Len(msg) - Len(suffix) + 1, Len(msg)) = suffix

\* C17: when the clip at zero-based position i of params.clips fails to
\* compile, the constructor does not throw (the error is stashed), and the
\* error the channel reports, in hasFailed and to the 'error' event, ends
\* with ' in clip i+1', whether the initialisation resolves or rejects.
C17_FailedClipIsIdentified ==
  (Constructed /\ FailingClips # {}) =>
    /\ EndsWith(clipsFailed.msg, <<" in clip ", ToString(FirstFailingClip)>>)
    /\ chpc = "reported" =>
         /\ ~channel.hasLoaded
         /\ EndsWith(channel.hasFailed.msg, <<" in clip ", ToString(FirstFailingClip)>>)
         /\ emitted = <<[event |-> "error", e |-> channel.hasFailed]>>

\* the failed clip is identified whenever the initialisation resolves
C17_HoldsWhenInitResolves ==
  initializerTask.state # "rejected" => C17_FailedClipIsIdentified

\* the zero-based indices of the clips told to start and not since told to stop
PlayingClips ==
  {i \in 0..(Len(channel.channelClips) - 1) :
     /\ channel.channelClips[i + 1].kind = "seq"
     /\ channel.channelClips[i + 1].told = "start"}

\* C20: after any addClip, startClip and stopClip calls activeClipIdx is the
\* index of the one clip told to start and not since told to stop, it is -1
\* exactly when the channel has no such clip, and a stopClip(idx) with idx
\* other than the active index has left it unchanged.
C20_ActiveClipIsThePlayingOne ==
  Constructed =>
    /\ channel.activePatternIdx = 0 - 1 <=> PlayingClips = {}
    /\ channel.activePatternIdx # 0 - 1 => PlayingClips = {channel.activePatternIdx}
    /\ (lastOp.op = "stopClip" /\ lastOp.idx # lastOp.activeBefore) =>
         channel.activePatternIdx = lastOp.activeBefore

\* activeClipIdx is right as long as no clip was put in the place of another
C20_HoldsWithoutReplacement ==
  (\A i \in 1..Len(channel.channelClips) : ~channel.channelClips[i].replacement) =>
    C20_ActiveClipIsThePlayingOne

\* a startClip(idx) that starts clip idx while another clip is the active one
\* has told that clip to stop, at the position clip idx starts at
StartStopsTheOther ==
  \A i, j \in 0..(Len(channel.channelClips) - 1) :
    (/\ i # j
     /\ channel.activePatternIdx = j
     /\ lastOp'.op = "startClip"
     /\ channel'.activePatternIdx = i) =>
      /\ channel'.channelClips[i + 1].told = "start"
      /\ channel'.channelClips[j + 1].told = "stop"
      /\ channel'.channelClips[j + 1].at = channel'.channelClips[i + 1].at

\* C22: at most one clip of a channel is told to start and not since told to
\* stop, after any startClip and stopClip calls; a startClip(idx) that starts
\* clip idx while a different clip is the active one first tells that clip
\* to stop at the same position.
C22_OneClipRunsAtATime ==
  /\ [](Cardinality(PlayingClips) <= 1)
  /\ [][StartStopsTheOther]_vars

\* clip 1 was started while clip 0 was the active one
C22_Witness ==
  /\ Len(channel.channelClips) >= 2
  /\ channel.activePatternIdx = 1
  /\ channel.channelClips[1].told = "stop"
  /\ channel.channelClips[1].state = "started"
  /\ channel.channelClips[2].told = "start"
  /\ channel.channelClips[2].at = "2:0:0"

\* the position the claim gives to addClip(clipParams, idx): idx, or the
\* length of the list when idx is left out
ClaimedIndex == IF lastOp'.idx = 0 - 1 THEN Len(channel.channelClips) ELSE lastOp'.idx

\* the addClip just made stored a new clip or an empty slot at the claimed
\* position and left every other slot as it was
StoredAtClaimedIndex ==
  /\ Len(channel'.channelClips) =
       (IF ClaimedIndex < Len(channel.channelClips)
        THEN Len(channel.channelClips) ELSE ClaimedIndex + 1)
  /\ channel'.channelClips[ClaimedIndex + 1].kind \in {"seq", "null"}
  /\ channel'.channelClips[ClaimedIndex + 1].told = "none"
  /\ \A i \in 1..Len(channel.channelClips) :
       i # ClaimedIndex + 1 => channel'.channelClips[i] = channel.channelClips[i]

\* C28: addClip(clipParams, idx) with an explicit idx >= 0, 0 included, stores
\* the new clip (an empty slot without a pattern) at exactly position idx and
\* leaves every other slot unchanged; without idx it appends at clips.length
\* (read on the calls in which the clip compiles).
C28_AddClipStoresAtIndex ==
  [][(chpc = "constructed" /\ ~lastOp'.threw) => StoredAtClaimedIndex]_vars

\* addClip stores at the claimed position for every idx but 0
C28_HoldsForOtherIndices ==
  [][(chpc = "constructed" /\ ~lastOp'.threw /\ lastOp'.idx # 0) => StoredAtClaimedIndex]_vars

\* ------------------------------------- claims on the loading of a Channel
\* the stages of the initializerTask in the order of the chain
InitStages == <<"initOutputProducer", "initInstrument", "adjustInstrument", "initEffects">>

\* the 'loaded' event was handed to eventCb
LoadedEmitted == \E i \in 1..Len(emitted) : emitted[i].event = "loaded"

\* the 'error' event was handed to eventCb
ErrorEmitted == \E i \in 1..Len(emitted) : emitted[i].event = "error"

\* C24: hasLoaded is true, and 'loaded' was emitted, only after
\* initOutputProducer, initInstrument, adjustInstrument and initEffects have
\* each completed, in that order, and only if every clip of params.clips
\* compiled; a clip compile error keeps hasLoaded false for ever.
C24_LoadedOnlyAfterInit ==
  /\ initializerTask.done = SubSeq(InitStages, 1, Len(initializerTask.done))
  /\ (channel.hasLoaded \/ LoadedEmitted) =>
       /\ initializerTask.done = InitStages
       /\ initializerTask.state = "resolved"
       /\ chParams.hasClips
       /\ FailingClips = {}
  /\ FailingClips # {} => ~channel.hasLoaded

\* a channel with two clips, given a player that was still loading, has loaded
C24_Witness ==
  /\ channel.hasLoaded
  /\ LoadedEmitted
  /\ chParams.output = "player"
  /\ ~chParams.ready
  /\ Len(channel.channelClips) = 2
  /\ initializerTask.done = InitStages

\* the parameters have no output source, or both synth and instrument
NoUsableOutput == chParams.output \in {"none", "synthAndInstrument"}

\* effects are combined with an external output
EffectsWithExternal ==
  chParams.output \in {"external", "externalNoInit"} /\ chParams.effects # "none"

\* the init() of the external output has rejected
ExternalInitRejected ==
  chParams.output = "external" /\ initializerTask.producer = "rejected"

\* the error each failure is reported with
FailureReported ==
  /\ ~channel.hasFailed.ok
  /\ emitted = <<[event |-> "error", e |-> channel.hasFailed]>>
  /\ chParams.output = "none" =>
       channel.hasFailed.msg = <<"One of required synth|instrument|sample|sampler|samples|buffer|player|external is not provided!">>
  /\ chParams.output = "synthAndInstrument" =>
       channel.hasFailed.msg = <<"Either synth or instrument can be provided, but not both.">>
  /\ ExternalInitRejected =>
       EndsWith(channel.hasFailed.msg, <<" loading external output module of channel idx ">>)
  /\ (EffectsWithExternal /\ ~ExternalInitRejected) =>
       channel.hasFailed.msg = <<"Effects cannot be used with external output">>

\* the constructor has returned and the initialisation fails
InitFails == Constructed /\ (NoUsableOutput \/ EffectsWithExternal \/ ExternalInitRejected)

\* C25: with no output source, with both synth and instrument, with effects
\* on an external output, or with an external init() that rejects, the
\* constructor returns, hasLoaded stays false for ever and 'loaded' is never
\* emitted, and the channel comes to report the failure: hasFailed is the
\* error and one 'error' event carries it.
C25_InitFailureIsReported ==
  /\ [](InitFails => (~channel.hasLoaded /\ ~LoadedEmitted))
  /\ []((InitFails /\ chpc = "reported") => FailureReported)
  /\ (InitFails ~> (chpc = "reported" /\ FailureReported))

\* effects on an external output whose init() resolved: the first three
\* stages completed, initEffects threw, the failure is reported
C25_Witness ==
  /\ chpc = "reported"
  /\ chParams.output = "external"
  /\ chParams.effects = "sameContext"
  /\ Len(initializerTask.done) = 3
  /\ FailureReported
  /\ channel.hasFailed.msg = <<"Effects cannot be used with external output">>

\* the channel has loaded or failed, and has said so
FinalOutcome ==
  /\ channel.hasLoaded \/ ~channel.hasFailed.ok
  /\ LoadedEmitted \/ ErrorEmitted

\* C26: every constructed channel comes to a final outcome, whatever its
\* output source, provided the audio objects finish loading: it sets
\* hasLoaded or hasFailed and emits 'loaded' or 'error'.
C26_ChannelReachesAnOutcome == Constructed ~> FinalOutcome

\* the sampler given to the channel was still loading
SamplerGivenLoading == chParams.output = "sampler" /\ ~chParams.ready

\* every channel but one given a sampler that is still loading, or an effect
\* of another context, comes to a final outcome
C26_HoldsForOtherChannels ==
  (Constructed /\ ~SamplerGivenLoading /\ chParams.effects # "otherContext") ~> FinalOutcome

\* C27: in every state hasLoaded is not true while hasFailed is set, and at
\* most one event, 'loaded' or 'error', was ever emitted, also when the
\* eventCb of the caller throws.
C27_OutcomesExcludeEachOther ==
  /\ ~(channel.hasLoaded /\ ~channel.hasFailed.ok)
  /\ Len(emitted) <= 1

\* the outcomes exclude each other as long as eventCb does not throw
C27_HoldsWhenEventCbReturns ==
  chParams.eventCb # "throws" => C27_OutcomesExcludeEachOther

\* --------------------------------------------- reading a tree token by token
RECURSIVE Leaves(_, _)
\* the leaves of a tree in depth-first left-to-right order, each with the
\* sizes of the groups that enclose it (outermost first)
Leaves(toks, sizes) ==
  IF toks = <<>> THEN <<>>
  ELSE
    LET h == Head(toks)
        first == IF h.t = "g" THEN Leaves(h.m, Append(sizes, Len(h.m)))
                 ELSE <<[t |-> h.t, sizes |-> sizes]>>
    IN first \o Leaves(Tail(toks), sizes)

RECURSIVE Product(_)
Product(sizes) == IF sizes = <<>> THEN 1 ELSE Head(sizes) * Product(Tail(sizes))

\* unit / (k1 * ... * kd)
Share(unit, leaf) == Rat(unit.n, unit.d * Product(leaf.sizes))

IsSounding(leaf) == leaf.t \in {"x", "R"}

\* positions in flat of the sounding leaves, in order
SoundingPositions(flat) ==
  SelectSeq([i \in 1..Len(flat) |-> i], LAMBDA i : IsSounding(flat[i]))

RECURSIVE NoEmptyGroup(_)
NoEmptyGroup(toks) ==
  \A i \in 1..Len(toks) :
    toks[i].t = "g" => (Len(toks[i].m) > 0 /\ NoEmptyGroup(toks[i].m))

AFlat == Leaves(atree, <<>>)

ASounding == SoundingPositions(AFlat)

Applied == apc \in {"applied", "done"}

\* C5: the allocator returns exactly one entry per 'x' or 'R' token of the tree
\* at any depth and none for '-'; the j-th entry belongs to the j-th such
\* token in depth-first left-to-right order (it is at least that token's own
\* share of the unit).
C5_OneEntryPerSoundingToken ==
  Applied =>
    /\ Len(adurations) = Len(ASounding)
    /\ \A j \in 1..Len(ASounding) :
         j <= Len(adurations) /\ RatLeq(Share(aunit, AFlat[ASounding[j]]), adurations[j])

C5_Witness ==
  /\ Applied
  /\ Len(adurations) = 2
  /\ \E i \in 1..Len(AFlat) : AFlat[i].t = "-"
  /\ Len(AFlat[ASounding[1]].sizes) # Len(AFlat[ASounding[2]].sizes)

\* the '_' leaves between the j-th sounding leaf and the next sounding leaf
TiesAfter(flat, sounding, j) ==
  LET from == sounding[j]
      to == IF j < Len(sounding) THEN sounding[j + 1] ELSE Len(flat) + 1
  IN SelectSeq([i \in 1..Len(flat) |-> i],
               LAMBDA i : from < i /\ i < to /\ flat[i].t = "_")

\* the '_' leaves that precede every sounding leaf
LeadingTies(flat, sounding) ==
  LET to == IF Len(sounding) > 0 THEN sounding[1] ELSE Len(flat) + 1
  IN SelectSeq([i \in 1..Len(flat) |-> i], LAMBDA i : i < to /\ flat[i].t = "_")

Rests(flat) == SelectSeq([i \in 1..Len(flat) |-> i], LAMBDA i : flat[i].t = "-")

RECURSIVE SumShares(_, _, _)
SumShares(unit, flat, positions) ==
  IF positions = <<>> THEN RatInt(0)
  ELSE RatAdd(Share(unit, flat[Head(positions)]),
              SumShares(unit, flat, Tail(positions)))

\* C6: a sounding token nested in groups of sizes k1..kd is allocated
\* unit/(k1*...*kd) (unit itself at top level); [xx]x with unit 4 gives [2, 2, 4].
C6_GeometricSubdivision ==
  Applied =>
    /\ \A j \in 1..Len(ASounding) :
         TiesAfter(AFlat, ASounding, j) = <<>> =>
           adurations[j] = Rat(aunit.n, aunit.d * Product(AFlat[ASounding[j]].sizes))
    /\ (apattern = <<"[", "x", "x", "]", "x">> /\ aunit = RatInt(4)) =>
         adurations = <<RatInt(2), RatInt(2), RatInt(4)>>

C6_Witness ==
  /\ Applied
  /\ \E j \in 1..Len(ASounding) :
       /\ Len(AFlat[ASounding[j]].sizes) = 2
       /\ Product(AFlat[ASounding[j]].sizes) > 1
       /\ TiesAfter(AFlat, ASounding, j) = <<>>

\* C7: a '_' never appends a duration; it adds the unit of its own nesting
\* level to the most recently appended duration (x_ gives [2], x__ gives [3]
\* with unit 1); before any duration was appended it changes nothing.
C7_TieExtendsLast ==
  Applied =>
    /\ Len(adurations) = Len(ASounding)
    /\ \A j \in 1..Len(ASounding) :
         adurations[j] =
           RatAdd(Share(aunit, AFlat[ASounding[j]]),
                  SumShares(aunit, AFlat, TiesAfter(AFlat, ASounding, j)))
    /\ (apattern = <<"x", "_">> /\ aunit = RatInt(1)) => adurations = <<RatInt(2)>>
    /\ (apattern = <<"x", "_", "_">> /\ aunit = RatInt(1)) => adurations = <<RatInt(3)>>
    /\ (apattern = <<"_", "x">> /\ aunit = RatInt(1)) => adurations = <<RatInt(1)>>

C7_Witness ==
  /\ Applied
  /\ LeadingTies(AFlat, ASounding) # <<>>
  /\ \E j \in 1..Len(ASounding) :
       \E k \in 1..Len(TiesAfter(AFlat, ASounding, j)) :
         AFlat[TiesAfter(AFlat, ASounding, j)[k]].sizes # AFlat[ASounding[j]].sizes

FlatXRest(pattern) == \A i \in 1..Len(pattern) : pattern[i] \in {"x", "-"}

\* C8: when no group is empty, the allocated durations plus the unit share of
\* every rest and of every tie dropped for want of a preceding duration add
\* up to unit * (number of top-level elements) = totalPatternDuration; a flat
\* pattern of n 'x' and '-' has one duration per 'x' and sums to n * unit.
C8_DurationConserved ==
  apc = "done" =>
    /\ NoEmptyGroup(atree) =>
         /\ RatAdd(RatSum(adurations),
                   RatAdd(SumShares(aunit, AFlat, Rests(AFlat)),
                          SumShares(aunit, AFlat, LeadingTies(AFlat, ASounding))))
              = atotal
         /\ atotal = RatMulInt(aunit, Len(atree))
    /\ FlatXRest(apattern) =>
         /\ Len(adurations) = Len(SelectSeq(apattern, LAMBDA c : c = "x"))
         /\ RatAdd(RatSum(adurations),
                   RatMulInt(aunit, Len(SelectSeq(apattern, LAMBDA c : c = "-"))))
              = RatMulInt(aunit, Len(apattern))

C8_Witness ==
  /\ apc = "done"
  /\ NoEmptyGroup(atree)
  /\ \E i \in 1..Len(atree) : atree[i].t = "g"
  /\ Rests(AFlat) # <<>>
  /\ LeadingTies(AFlat, ASounding) # <<>>
  /\ Len(adurations) > 0

====
